---- MODULE Spec2Model ----
(***************************************************************************)
(* A model of the dungeon crawler polgfred/dungeon.                        *)
(*                                                                         *)
(*   SpecGen      generation.py   generate_dungeon, step by step          *)
(*   Spec         engine.py       Game: one action per command handler     *)
(*   SpecSession  encounter.py    EncounterSession.step                    *)
(*                                                                         *)
(* The random source is a nondeterministic choice over the range of each   *)
(* draw that is tested or selects (RandInt) and over the two ends of the   *)
(* range of each draw that is an amount in the game (RandAmount);          *)
(* rngDraws counts the draws the last step consumed.                       *)
(***************************************************************************)
EXTENDS Integers, Sequences, FiniteSets, TLC

VARIABLES
    rooms,          \* Dungeon.rooms: [position -> Room]
    gen,            \* generate_dungeon's position: [pc, idx, placed, z]
    player,         \* Game.player / EncounterSession.player
    mode,           \* Game.mode
    encounter,      \* Game.encounter (NoEncounter for None)
    awaiting_spell, \* Game._awaiting_spell
    shop_state,     \* Game._shop_state (NoShop for None)
    pc,             \* "new", "idle" between steps, "entering" in _enter_room
    calls,          \* the calls of start_events and step made so far
    events,         \* the events of the step in progress or just finished
    rngDraws,       \* draws of the shared generator consumed by that step
    needs_input,    \* StepResult.needs_input of the last step
    sess            \* an EncounterSession and the result of its last step

vars == <<rooms, gen, player, mode, encounter, awaiting_spell, shop_state,
          pc, calls, events, rngDraws, needs_input, sess>>

Max(a, b) == IF a >= b THEN a ELSE b
Min(a, b) == IF a <= b THEN a ELSE b

(***************************************************************************)
(* Bounds of the model.                                                    *)
(***************************************************************************)
\* The generator's grid (the source's is 7 x 7 x 7).
GenFloors == 3
GenRows == 1
GenCols == 3
\* Treasures the generator places (the source places 10).
GenTreasures == 2
\* _create_room's feature rolls modelled: 1..GenFeatureRolls (of 1..8).
GenFeatureRolls == 1
\* Monster levels modelled in the generator run: floor+1 .. floor+1+GenSpread.
GenSpread == 0

(***************************************************************************)
(* constants.py                                                            *)
(***************************************************************************)
Features == {"EMPTY", "MIRROR", "SCROLL", "CHEST", "FLARES", "POTION",
             "VENDOR", "THIEF", "WARP", "STAIRS_UP", "STAIRS_DOWN", "EXIT"}

\* Feature(roll), for the rolls 1..8 that _create_room turns into a feature.
Feature(roll) ==
    CASE roll = 1 -> "MIRROR"
      [] roll = 2 -> "SCROLL"
      [] roll = 3 -> "CHEST"
      [] roll = 4 -> "FLARES"
      [] roll = 5 -> "POTION"
      [] roll = 6 -> "VENDOR"
      [] roll = 7 -> "THIEF"
      [] roll = 8 -> "WARP"
      [] roll = 9 -> "STAIRS_UP"
      [] roll = 10 -> "STAIRS_DOWN"
      [] roll = 11 -> "EXIT"
      [] OTHER -> "EMPTY"

(***************************************************************************)
(* model.py: Room, Dungeon                                                 *)
(***************************************************************************)
Room == [feature |-> "EMPTY", monster_level |-> 0, treasure_id |-> 0,
         seen |-> FALSE]

Grid(floors, rows, cols) == (0..floors-1) \X (0..rows-1) \X (0..cols-1)

GenGrid == Grid(GenFloors, GenRows, GenCols)

(***************************************************************************)
(* generation.py                                                           *)
(***************************************************************************)
\* _create_room's levels without the cap at 10.
MonsterLevelsUncapped(floor, spread) ==
    LET min_level == floor + 1
        max_level == min_level + spread
    IN  min_level..max_level

\* The levels _create_room draws from on a floor: randint(min_level, max_level).
MonsterLevels(floor, spread) ==
    LET min_level == floor + 1
        max_level == Min(10, min_level + spread)
    IN  min_level..max_level

\* _create_room(rng, floor): every room the draws can give. featureRolls are
\* the rolls <= 8 modelled; a roll above 8 places a monster.
CreateRoomOutcomes(floor, featureRolls, spread) ==
    {Room}
    \cup {[Room EXCEPT !.feature = Feature(roll)] : roll \in featureRolls}
    \cup {[Room EXCEPT !.monster_level = lvl] :
             lvl \in MonsterLevels(floor, spread)}

\* The position the idx-th call of _create_room fills: z outermost, x innermost.
FillPos(idx) ==
    <<idx \div (GenRows * GenCols), (idx \div GenCols) % GenRows, idx % GenCols>>

\* _place_treasures without its test of the room's feature.
TreasureEligibleNoFeatureCheck(r, p) == r[p].treasure_id = 0

\* _place_treasures: the draw (z, y, x) is accepted.
TreasureEligible(r, p) ==
    /\ r[p].treasure_id = 0
    /\ r[p].feature = "EMPTY"

\* _place_stairs without its test of the room below.
StairsEligibleNoBelowCheck(r, z, y, x) ==
    LET room == r[<<z, y, x>>]
    IN  /\ ~(room.treasure_id > 0 \/ room.monster_level > 0)
        /\ room.feature # "STAIRS_DOWN"

\* _place_stairs: the draw (y, x) is accepted on floor z.
StairsEligible(r, z, y, x) ==
    LET room == r[<<z, y, x>>]
        room_below == r[<<z + 1, y, x>>]
    IN  /\ ~(room.treasure_id > 0 \/ room.monster_level > 0)
        /\ ~(room_below.treasure_id > 0 \/ room_below.monster_level > 0)
        /\ room.feature # "STAIRS_DOWN"

\* _place_exit: the draw (y, x) is accepted on the deepest floor z.
ExitEligible(r, z, y, x) ==
    LET room == r[<<z, y, x>>]
    IN  /\ ~(room.treasure_id > 0 \/ room.monster_level > 0)
        /\ room.feature \notin {"STAIRS_UP", "STAIRS_DOWN", "EXIT"}

\* validate_dungeon, over a grid of the given size; the set of the messages
\* of the list it returns (the list is empty iff the set is). treasures is
\* the count the dungeon must hold.
ValidateDungeon(r, floors, rows, cols, treasures) ==
    LET G == Grid(floors, rows, cols)
        stairs_up_counts(z) ==
            Cardinality({p \in G : p[1] = z /\ r[p].feature = "STAIRS_UP"})
        stairs_down_counts(z) ==
            Cardinality({p \in G : p[1] = z /\ r[p].feature = "STAIRS_DOWN"})
        exit_count == Cardinality({p \in G : r[p].feature = "EXIT"})
        treasure_count == Cardinality({p \in G : r[p].treasure_id # 0})
        roomErrors(p) ==
            LET z == p[1]
                room == r[p]
            IN  (IF room.feature = "EXIT" /\ z # floors - 1
                 THEN {"Exit placed on non-final floor."} ELSE {})
                \cup (IF room.treasure_id # 0 /\ room.feature # "EMPTY"
                      THEN {"Treasure placed in non-empty room."} ELSE {})
                \cup (IF room.monster_level > 0 /\ room.feature # "EMPTY"
                      THEN {"Monster placed in room with feature."} ELSE {})
                \cup (IF room.feature = "STAIRS_UP"
                      THEN IF z = floors - 1
                           THEN {"Stairs up on final floor."}
                           ELSE IF r[<<z + 1, p[2], p[3]>>].feature # "STAIRS_DOWN"
                                THEN {"Stair alignment mismatch."} ELSE {}
                      ELSE {})
                \cup (IF room.feature = "STAIRS_DOWN"
                      THEN IF z = 0
                           THEN {"Stairs down on first floor."}
                           ELSE IF r[<<z - 1, p[2], p[3]>>].feature # "STAIRS_UP"
                                THEN {"Stair alignment mismatch."} ELSE {}
                      ELSE {})
                \cup (IF /\ room.feature \in {"EXIT", "STAIRS_UP", "STAIRS_DOWN"}
                         /\ (room.monster_level > 0 \/ room.treasure_id > 0)
                      THEN {"Feature placed in room with monster or treasure."}
                      ELSE {})
        floorErrors(z) ==
            (IF z < floors - 1 /\ stairs_up_counts(z) # 1
             THEN {"Floor must contain exactly one staircase up."} ELSE {})
            \cup (IF z = floors - 1 /\ stairs_up_counts(z) # 0
                  THEN {"Final floor must not contain staircase up."} ELSE {})
            \cup (IF z > 0 /\ stairs_down_counts(z) # 1
                  THEN {"Floor must contain exactly one staircase down."} ELSE {})
            \cup (IF z = 0 /\ stairs_down_counts(z) # 0
                  THEN {"First floor must not contain staircase down."} ELSE {})
    IN  UNION {roomErrors(p) : p \in G}
        \cup UNION {floorErrors(z) : z \in 0..floors-1}
        \cup (IF exit_count # 1
              THEN {"Dungeon must contain exactly one exit."} ELSE {})
        \cup (IF treasure_count # treasures
              THEN {"Dungeon must contain exactly 10 treasures."} ELSE {})

(***************************************************************************)
(* generate_dungeon as a process: the fill in grid order, then the three   *)
(* rejection-sampling loops. A rejected draw leaves the state unchanged.   *)
(***************************************************************************)
Idle == "idle"
NoEncounter == [monster_level |-> 0, vitality |-> 0]
NoShop == [phase |-> "none", category |-> "none"]
NoPlayer == [z |-> 0]
NoSession == [active |-> FALSE]
GenOff == [pc |-> "off", idx |-> 0, placed |-> 0, z |-> 0]

GenFeatureRollSet == 1..Min(8, GenFeatureRolls)

InitGen ==
    /\ rooms = [p \in GenGrid |-> Room]
    /\ gen = [pc |-> "fill", idx |-> 0, placed |-> 0, z |-> 0]
    /\ player = NoPlayer
    /\ mode = "EXPLORE"
    /\ encounter = NoEncounter
    /\ awaiting_spell = FALSE
    /\ shop_state = NoShop
    /\ pc = Idle
    /\ calls = 0
    /\ events = <<>>
    /\ rngDraws = 0
    /\ needs_input = TRUE
    /\ sess = NoSession

GenUnchanged ==
    UNCHANGED <<player, mode, encounter, awaiting_spell, shop_state, pc, calls,
                events, rngDraws, needs_input, sess>>

\* One call of _create_room, for the next room in grid order.
GenCreateRoom ==
    /\ gen.pc = "fill"
    /\ \E room \in CreateRoomOutcomes(FillPos(gen.idx)[1], GenFeatureRollSet,
                                       GenSpread) :
          rooms' = [rooms EXCEPT ![FillPos(gen.idx)] = room]
    /\ gen' = IF gen.idx + 1 = GenFloors * GenRows * GenCols
              THEN [gen EXCEPT !.pc = "treasures"]
              ELSE [gen EXCEPT !.idx = gen.idx + 1]
    /\ GenUnchanged

\* One iteration of _place_treasures' loop.
GenPlaceTreasure ==
    /\ gen.pc = "treasures"
    /\ \E p \in GenGrid :
          IF TreasureEligible(rooms, p)
          THEN /\ rooms' = [rooms EXCEPT ![p].treasure_id = gen.placed + 1]
               /\ gen' = IF gen.placed + 1 < GenTreasures
                         THEN [gen EXCEPT !.placed = gen.placed + 1]
                         ELSE [gen EXCEPT !.placed = gen.placed + 1,
                                          !.pc = "stairs"]
          ELSE UNCHANGED <<rooms, gen>>
    /\ GenUnchanged

\* One iteration of _place_stairs' inner loop, for the floor gen.z.
GenPlaceStairs ==
    /\ gen.pc = "stairs"
    /\ \E y \in 0..GenRows-1, x \in 0..GenCols-1 :
          IF StairsEligible(rooms, gen.z, y, x)
          THEN /\ rooms' = [rooms EXCEPT
                             ![<<gen.z, y, x>>].feature = "STAIRS_UP",
                             ![<<gen.z + 1, y, x>>].feature = "STAIRS_DOWN"]
               /\ gen' = IF gen.z + 1 < GenFloors - 1
                         THEN [gen EXCEPT !.z = gen.z + 1]
                         ELSE [gen EXCEPT !.z = gen.z + 1, !.pc = "exit"]
          ELSE UNCHANGED <<rooms, gen>>
    /\ GenUnchanged

\* One iteration of _place_exit's loop.
GenPlaceExit ==
    /\ gen.pc = "exit"
    /\ \E y \in 0..GenRows-1, x \in 0..GenCols-1 :
          IF ExitEligible(rooms, GenFloors - 1, y, x)
          THEN /\ rooms' = [rooms EXCEPT
                             ![<<GenFloors - 1, y, x>>].feature = "EXIT"]
               /\ gen' = [gen EXCEPT !.pc = "done"]
          ELSE UNCHANGED <<rooms, gen>>
    /\ GenUnchanged

NextGen == GenCreateRoom \/ GenPlaceTreasure \/ GenPlaceStairs \/ GenPlaceExit

SpecGen == InitGen /\ [][NextGen]_vars

GenDone == gen.pc = "done"

(***************************************************************************)
(* Claims about the generator (SpecGen).                                   *)
(***************************************************************************)
GenCount(S) == Cardinality(S)

\* C1: every dungeon generate_dungeon returns makes validate_dungeon return
\* no violation: one Exit, on the deepest floor; the full count of treasure
\* rooms; one StairsUp on every floor but the deepest and one StairsDown on
\* every floor but floor 0, each aligned with its partner; no feature in a
\* room with a monster or a treasure.
C1_GenerateValidates ==
    GenDone =>
        /\ ValidateDungeon(rooms, GenFloors, GenRows, GenCols, GenTreasures) = {}
        /\ GenCount({p \in GenGrid : rooms[p].feature = "EXIT"}) = 1
        /\ \A p \in GenGrid : rooms[p].feature = "EXIT" => p[1] = GenFloors - 1
        /\ GenCount({p \in GenGrid : rooms[p].treasure_id > 0}) = GenTreasures
        /\ \A z \in 0..GenFloors-1 :
              /\ GenCount({p \in GenGrid :
                    p[1] = z /\ rooms[p].feature = "STAIRS_UP"})
                    = (IF z < GenFloors - 1 THEN 1 ELSE 0)
              /\ GenCount({p \in GenGrid :
                    p[1] = z /\ rooms[p].feature = "STAIRS_DOWN"})
                    = (IF z > 0 THEN 1 ELSE 0)
        /\ \A p \in GenGrid :
              /\ rooms[p].feature = "STAIRS_UP" =>
                    rooms[<<p[1] + 1, p[2], p[3]>>].feature = "STAIRS_DOWN"
              /\ rooms[p].feature = "STAIRS_DOWN" =>
                    rooms[<<p[1] - 1, p[2], p[3]>>].feature = "STAIRS_UP"
              /\ rooms[p].feature # "EMPTY" =>
                    rooms[p].monster_level = 0 /\ rooms[p].treasure_id = 0

\* A finished dungeon in which a stair was stamped over a feature the fill
\* had placed, next to a monster and a treasure elsewhere.
C1_Witness ==
    /\ GenDone
    /\ \E p \in GenGrid : rooms[p].monster_level > 0
    /\ \E p \in GenGrid : rooms[p].feature = "MIRROR"
    /\ \E p \in GenGrid : rooms[p].treasure_id = GenTreasures

SIZE == 2
TreasureCount == 2
\* The calls of start_events and step the model follows a game for.
MaxCalls == 7
\* The deepest recursion of _enter_room the model follows.
MaxEnterDepth == 9

GameGrid == Grid(SIZE, SIZE, SIZE)

Spells == {"PROTECTION", "FIREBALL", "LIGHTNING", "WEAKEN", "TELEPORT"}

\* Spell(n), constants.py.
Spell(n) ==
    CASE n = 1 -> "PROTECTION"
      [] n = 2 -> "FIREBALL"
      [] n = 3 -> "LIGHTNING"
      [] n = 4 -> "WEAKEN"
      [] OTHER -> "TELEPORT"

EXPLORE_COMMANDS == {"N", "S", "E", "W", "U", "D", "F", "X", "L", "O", "R",
                     "P", "B", "H"}
ENCOUNTER_COMMANDS == {"F", "R", "S"}

WEAPON_NAMES(tier) ==
    CASE tier = 1 -> "Dagger"
      [] tier = 2 -> "Short sword"
      [] tier = 3 -> "Broadsword"
      [] OTHER -> "(None)"

ARMOR_NAMES(tier) ==
    CASE tier = 1 -> "Leather"
      [] tier = 2 -> "Wooden"
      [] tier = 3 -> "Chain mail"
      [] OTHER -> "(None)"

WEAPON_PRICES(tier) ==
    CASE tier = 1 -> 10
      [] tier = 2 -> 20
      [] OTHER -> 30

ARMOR_PRICES(tier) ==
    CASE tier = 1 -> 10
      [] tier = 2 -> 20
      [] OTHER -> 30

SPELL_PRICES(spell) ==
    CASE spell = "PROTECTION" -> 50
      [] spell = "FIREBALL" -> 30
      [] spell = "LIGHTNING" -> 50
      [] spell = "WEAKEN" -> 75
      [] OTHER -> 80

POTION_PRICES(kind) == IF kind = "HEALING" THEN 50 ELSE 100

\* The tokens a step is given, already stripped and upper-cased; "" is the
\* empty command. Every token here is one character, its own key.
Tokens == EXPLORE_COMMANDS \cup {"M", "T", "Z", "0", "1", "2", "3", "4", "5", ""}

\* Event(kind, text, data): text is a tag for the message, n the treasure id
\* of a treasure's loot event.
Ev(kind, text) == [kind |-> kind, text |-> text, n |-> 0, at |-> <<>>]
EvN(kind, text, n) == [kind |-> kind, text |-> text, n |-> n, at |-> <<>>]
EvAt(kind, text, n, at) == [kind |-> kind, text |-> text, n |-> n, at |-> at]

\* rng.randint(a, b)
RandInt(a, b) == a..b

\* The draws followed where rng.randint(a, b) is an amount added to or taken
\* from a field: the two ends of its range.
RandAmount(a, b) == {a, b}

\* The outcomes of the test roll <= score for roll = rng.randint(1, 100):
\* TRUE with the roll 1 if any, FALSE with the roll 100 if any.
RollAtMost(score) == {b \in BOOLEAN : IF b THEN 1 <= score ELSE 100 > score}

(***************************************************************************)
(* roll_base_stats and create_player (engine.py)                           *)
(***************************************************************************)
RollBaseStats(race, rn, rd, ra, r2) ==
    CASE race = "HUMAN" -> <<8 + rn, 8 + rd, 8 + ra, 20 + r2>>
      [] race = "DWARF" -> <<10 + rn, 8 + rd, 6 + ra, 22 + r2>>
      [] race = "ELF" -> <<6 + rn, 9 + rd, 10 + ra, 16 + r2>>
      [] OTHER -> <<6 + rn, 10 + rd, 9 + ra, 18 + r2>>

\* A creation that sells on credit.
CreatePlayerOnCredit(in) ==
    LET base == RollBaseStats(in.race, in.rn, in.rd, in.ra, in.r2)
        cost == WEAPON_PRICES(in.weapon_tier) + ARMOR_PRICES(in.armor_tier)
                    + in.flare_count
    IN  IF \/ in.str_add < 0 \/ in.dex_add < 0 \/ in.iq_add < 0
           \/ in.str_add + in.dex_add + in.iq_add # 5
           \/ in.weapon_tier \notin {1, 2, 3}
           \/ in.armor_tier \notin {1, 2, 3}
           \/ in.flare_count < 0
        THEN [ok |-> FALSE]
        ELSE [ok |-> TRUE,
              player |->
                [z |-> 0, y |-> SIZE \div 2, x |-> SIZE \div 2,
                 str_ |-> Min(18, base[1] + in.str_add),
                 dex |-> Min(18, base[2] + in.dex_add),
                 iq |-> Min(18, base[3] + in.iq_add),
                 hp |-> base[4], mhp |-> base[4],
                 gold |-> in.gold - cost,
                 flares |-> in.flare_count,
                 treasures_found |-> {},
                 weapon_tier |-> in.weapon_tier,
                 armor_tier |-> in.armor_tier,
                 weapon_name |-> WEAPON_NAMES(in.weapon_tier),
                 weapon_broken |-> FALSE,
                 armor_name |-> ARMOR_NAMES(in.armor_tier),
                 armor_damaged |-> FALSE,
                 spells |-> [sp \in Spells |-> 0],
                 fatigued |-> FALSE,
                 temp_armor_bonus |-> 0]]

\* create_player: in is [race, str_add, dex_add, iq_add, weapon_tier,
\* armor_tier, flare_count] and the draws [rn, rd, ra, r2, gold].
\* The result is [ok |-> FALSE] where create_player raises ValueError.
CreatePlayer(in) ==
    LET base == RollBaseStats(in.race, in.rn, in.rd, in.ra, in.r2)
        rem1 == 5 - in.str_add
        rem2 == rem1 - in.dex_add
        rem3 == rem2 - in.iq_add
        cost == WEAPON_PRICES(in.weapon_tier) + ARMOR_PRICES(in.armor_tier)
                    + in.flare_count
    IN  IF \/ in.str_add < 0 \/ in.str_add > 5
           \/ in.dex_add < 0 \/ in.dex_add > rem1
           \/ in.iq_add < 0 \/ in.iq_add > rem2
           \/ rem3 # 0
           \/ in.weapon_tier \notin {1, 2, 3}
           \/ in.armor_tier \notin {1, 2, 3}
           \/ in.flare_count < 0
           \/ cost > in.gold
        THEN [ok |-> FALSE]
        ELSE [ok |-> TRUE,
              player |->
                [z |-> 0, y |-> SIZE \div 2, x |-> SIZE \div 2,
                 str_ |-> Min(18, base[1] + in.str_add),
                 dex |-> Min(18, base[2] + in.dex_add),
                 iq |-> Min(18, base[3] + in.iq_add),
                 hp |-> base[4], mhp |-> base[4],
                 gold |-> in.gold - cost,
                 flares |-> in.flare_count,
                 treasures_found |-> {},
                 weapon_tier |-> in.weapon_tier,
                 armor_tier |-> in.armor_tier,
                 weapon_name |-> WEAPON_NAMES(in.weapon_tier),
                 weapon_broken |-> FALSE,
                 armor_name |-> ARMOR_NAMES(in.armor_tier),
                 armor_damaged |-> FALSE,
                 spells |-> [sp \in Spells |-> 0],
                 fatigued |-> FALSE,
                 temp_armor_bonus |-> 0]]

\* The character creations the model starts from.
Creation(race, flare_count, gold) ==
    [race |-> race, str_add |-> 2, dex_add |-> 2, iq_add |-> 1,
     weapon_tier |-> 1, armor_tier |-> 1, flare_count |-> flare_count,
     rn |-> 0, rd |-> 0, ra |-> 4, r2 |-> 0, gold |-> gold]

CreationInputs == {Creation("HUMAN", 0, 50), Creation("ELF", 1, 60)}

(***************************************************************************)
(* The dungeons a game starts in: layouts on the SIZE cube that             *)
(* generate_dungeon can return (a fill, treasures in featureless rooms,    *)
(* stairs and exit stamped last), kept only if validate_dungeon accepts.   *)
(***************************************************************************)
StairsUpAt(z) == IF z % 2 = 0 THEN <<z, 0, 0>> ELSE <<z, SIZE - 1, SIZE - 1>>
StairsDownAt(z) == <<z, StairsUpAt(z - 1)[2], StairsUpAt(z - 1)[3]>>
ExitAt == <<SIZE - 1, 1, 1>>

\* The room of treasure k (k > 2 only when TreasureCount is raised).
ExtraTreasureAt(k) == <<0, SIZE - 1, k - 3>>

Stamp(fill) ==
    [p \in GameGrid |->
        IF p[1] < SIZE - 1 /\ p = StairsUpAt(p[1])
        THEN [Room EXCEPT !.feature = "STAIRS_UP"]
        ELSE IF p[1] > 0 /\ p = StairsDownAt(p[1])
        THEN [Room EXCEPT !.feature = "STAIRS_DOWN"]
        ELSE IF p = ExitAt
        THEN [Room EXCEPT !.feature = "EXIT"]
        ELSE IF \E k \in 3..TreasureCount : p = ExtraTreasureAt(k)
        THEN [Room EXCEPT !.treasure_id =
                 CHOOSE k \in 3..TreasureCount : p = ExtraTreasureAt(k)]
        ELSE fill[p]]

Feat(f) == [Room EXCEPT !.feature = f]
Mon(lvl, t) == [Room EXCEPT !.monster_level = lvl, !.treasure_id = t]

\* A scroll in the first room, a monster on a treasure, a monster on none,
\* a thief.
LayoutCombat ==
    Stamp([p \in GameGrid |->
        CASE p = <<0, 1, 1>> -> Feat("SCROLL")
          [] p = <<0, 0, 1>> -> Mon(1, 1)
          [] p = <<0, 1, 0>> -> Mon(2, 0)
          [] p = <<1, 0, 1>> -> Mon(0, 2)
          [] p = <<1, 1, 0>> -> Feat("THIEF")
          [] OTHER -> Room])

\* Flares in the first room, a potion, a warp, both treasures unguarded.
LayoutFeatures ==
    Stamp([p \in GameGrid |->
        CASE p = <<0, 1, 1>> -> Feat("FLARES")
          [] p = <<0, 0, 1>> -> Feat("POTION")
          [] p = <<0, 1, 0>> -> Feat("WARP")
          [] p = <<1, 0, 1>> -> Mon(0, 1)
          [] p = <<1, 1, 0>> -> Mon(0, 2)
          [] OTHER -> Room])

\* Two warps next to the first room, each a destination of the other, and
\* both treasures a floor below.
LayoutWarps ==
    Stamp([p \in GameGrid |->
        CASE p = <<0, 0, 1>> -> Feat("WARP")
          [] p = <<0, 1, 0>> -> Feat("WARP")
          [] p = <<1, 0, 1>> -> Mon(0, 1)
          [] p = <<1, 1, 0>> -> Mon(0, 2)
          [] OTHER -> Room])

\* Both treasures on the way to the stairs, a vendor, a chest and a mirror.
LayoutShop ==
    Stamp([p \in GameGrid |->
        CASE p = <<0, 1, 1>> -> Mon(0, 1)
          [] p = <<0, 0, 1>> -> Mon(0, 2)
          [] p = <<0, 1, 0>> -> Feat("VENDOR")
          [] p = <<1, 0, 1>> -> Feat("CHEST")
          [] p = <<1, 1, 0>> -> Feat("MIRROR")
          [] OTHER -> Room])

\* Game(seed, player): the dungeon generated and the player given, a
\* character of create_player; the one of the first scenario has been
\* wounded since and the one of the last has gathered gold.
Scenarios ==
    {[rooms |-> LayoutCombat,
      player |-> [CreatePlayer(Creation("ELF", 1, 60)).player EXCEPT !.hp = 4]],
     [rooms |-> LayoutFeatures, player |-> CreatePlayer(Creation("ELF", 1, 60)).player],
     [rooms |-> LayoutShop,
      player |-> [CreatePlayer(Creation("HUMAN", 0, 50)).player EXCEPT !.gold = 130]]}

InitialGames ==
    {s \in Scenarios :
        ValidateDungeon(s.rooms, SIZE, SIZE, SIZE, TreasureCount) = {}}

\* Game.__init__
Init ==
    /\ \E s \in InitialGames : rooms = s.rooms /\ player = s.player
    /\ gen = GenOff
    /\ mode = "EXPLORE"
    /\ encounter = NoEncounter
    /\ awaiting_spell = FALSE
    /\ shop_state = NoShop
    /\ pc = "new"
    /\ calls = 0
    /\ events = <<>>
    /\ rngDraws = 0
    /\ needs_input = TRUE
    /\ sess = NoSession

Here == <<player.z, player.y, player.x>>

\* Game._current_room
CurrentRoom == rooms[Here]

(***************************************************************************)
(* Game.step: the dispatch. A step is one action, but for _enter_room,     *)
(* whose calls (one per room entered, a warp re-enters) are actions of     *)
(* their own, taken while pc = "entering".                                 *)
(***************************************************************************)
AcceptsInput == pc \in {"new", Idle} /\ calls < MaxCalls
Terminal == mode \in {"GAME_OVER", "VICTORY"}
Exploring ==
    /\ AcceptsInput /\ ~Terminal
    /\ shop_state = NoShop /\ ~awaiting_spell /\ mode = "EXPLORE"
Fighting ==
    /\ AcceptsInput /\ ~Terminal
    /\ shop_state = NoShop /\ ~awaiting_spell /\ mode = "ENCOUNTER"

\* The step returns: its events, draws and StepResult.needs_input.
Return(evs, draws, input) ==
    /\ calls' = calls + 1
    /\ events' = evs
    /\ rngDraws' = draws
    /\ needs_input' = input
    /\ pc' = Idle

\* The step goes on in _enter_room.
GoEnter(evs, draws) ==
    /\ calls' = calls + 1
    /\ events' = evs
    /\ rngDraws' = draws
    /\ needs_input' = TRUE
    /\ pc' = "entering"

\* step: an empty command, whatever the mode.
StepEmpty ==
    /\ AcceptsInput
    /\ Return(<<Ev("ERROR", "dont_understand")>>, 0, TRUE)
    /\ UNCHANGED <<rooms, gen, player, mode, encounter, awaiting_spell,
                   shop_state, sess>>

\* step: the game has ended.
StepTerminal ==
    /\ AcceptsInput /\ Terminal
    /\ \E tok \in Tokens \ {""} : Return(<<>>, 0, FALSE)
    /\ UNCHANGED <<rooms, gen, player, mode, encounter, awaiting_spell,
                   shop_state, sess>>

\* A step that lets the monster strike when the key is no command.
StepUnknownStruck ==
    /\ Exploring \/ Fighting
    /\ \E tok \in Tokens \ {""} :
          /\ tok \notin (IF mode = "EXPLORE" THEN EXPLORE_COMMANDS
                         ELSE ENCOUNTER_COMMANDS)
          /\ Return(<<Ev("ERROR", "dont_understand")>>, 0, TRUE)
    /\ player' = IF mode = "ENCOUNTER" THEN [player EXCEPT !.hp = @ - 1]
                 ELSE player
    /\ UNCHANGED <<rooms, gen, mode, encounter, awaiting_spell, shop_state,
                   sess>>

\* step: a key that is no command of the mode.
StepUnknown ==
    /\ Exploring \/ Fighting
    /\ \E tok \in Tokens \ {""} :
          /\ tok \notin (IF mode = "EXPLORE" THEN EXPLORE_COMMANDS
                         ELSE ENCOUNTER_COMMANDS)
          /\ Return(<<Ev("ERROR", "dont_understand")>>, 0, TRUE)
    /\ UNCHANGED <<rooms, gen, player, mode, encounter, awaiting_spell,
                   shop_state, sess>>

\* _handle_explore: H
Help ==
    /\ Exploring
    /\ Return(<<Ev("INFO", "help")>>, 0, TRUE)
    /\ UNCHANGED <<rooms, gen, player, mode, encounter, awaiting_spell,
                   shop_state, sess>>

\* A move that knows no walls.
MoveThroughWalls ==
    /\ Exploring
    /\ \E m \in {<<"N", -1, 0>>, <<"S", 1, 0>>, <<"E", 0, 1>>, <<"W", 0, -1>>} :
          /\ player' = [player EXCEPT !.y = player.y + m[2],
                                      !.x = player.x + m[3]]
          /\ GoEnter(<<>>, 0)
    /\ UNCHANGED <<rooms, gen, mode, encounter, awaiting_spell, shop_state, sess>>

\* _move(dy, dx)
Move ==
    /\ Exploring
    /\ \E m \in {<<"N", -1, 0>>, <<"S", 1, 0>>, <<"E", 0, 1>>, <<"W", 0, -1>>} :
          LET ny == player.y + m[2]
              nx == player.x + m[3]
          IN  IF ny < 0 \/ ny > SIZE - 1 \/ nx < 0 \/ nx > SIZE - 1
              THEN /\ Return(<<Ev("INFO", "wall")>>, 0, TRUE)
                   /\ UNCHANGED player
              ELSE /\ player' = [player EXCEPT !.y = ny, !.x = nx]
                   /\ GoEnter(<<>>, 0)
    /\ UNCHANGED <<rooms, gen, mode, encounter, awaiting_spell, shop_state, sess>>

\* Stairs that lead up from any room.
StairsUpAnywhere ==
    /\ Exploring
    /\ player' = [player EXCEPT !.z = player.z + 1]
    /\ GoEnter(<<>>, 0)
    /\ UNCHANGED <<rooms, gen, mode, encounter, awaiting_spell, shop_state, sess>>

\* _stairs_up
StairsUp ==
    /\ Exploring
    /\ IF CurrentRoom.feature # "STAIRS_UP"
       THEN /\ Return(<<Ev("INFO", "no_stairs_up")>>, 0, TRUE)
            /\ UNCHANGED player
       ELSE /\ player' = [player EXCEPT !.z = player.z + 1]
            /\ GoEnter(<<>>, 0)
    /\ UNCHANGED <<rooms, gen, mode, encounter, awaiting_spell, shop_state, sess>>

\* _stairs_down
StairsDown ==
    /\ Exploring
    /\ IF CurrentRoom.feature # "STAIRS_DOWN"
       THEN /\ Return(<<Ev("INFO", "no_stairs_down")>>, 0, TRUE)
            /\ UNCHANGED player
       ELSE /\ player' = [player EXCEPT !.z = player.z - 1]
            /\ GoEnter(<<>>, 0)
    /\ UNCHANGED <<rooms, gen, mode, encounter, awaiting_spell, shop_state, sess>>

\* An exit that does not count the treasures.
AttemptExitNoCount ==
    /\ Exploring
    /\ IF CurrentRoom.feature # "EXIT"
       THEN /\ Return(<<Ev("INFO", "no_exit")>>, 0, TRUE)
            /\ UNCHANGED mode
       ELSE /\ mode' = "VICTORY"
            /\ Return(<<Ev("INFO", "victor")>>, 0, TRUE)
    /\ UNCHANGED <<rooms, gen, player, encounter, awaiting_spell, shop_state, sess>>

\* _attempt_exit
AttemptExit ==
    /\ Exploring
    /\ IF CurrentRoom.feature # "EXIT"
       THEN /\ Return(<<Ev("INFO", "no_exit")>>, 0, TRUE)
            /\ UNCHANGED mode
       ELSE IF Cardinality(player.treasures_found) < TreasureCount
       THEN /\ mode' = "GAME_OVER"
            /\ Return(<<Ev("INFO", "abandon")>>, 0, TRUE)
       ELSE /\ mode' = "VICTORY"
            /\ Return(<<Ev("INFO", "victor")>>, 0, TRUE)
    /\ UNCHANGED <<rooms, gen, player, encounter, awaiting_spell, shop_state, sess>>

\* A flare that shines through the floors.
UseFlareAllFloors ==
    /\ Exploring
    /\ IF player.flares < 1
       THEN /\ Return(<<Ev("INFO", "no_flares")>>, 0, TRUE)
            /\ UNCHANGED <<player, rooms>>
       ELSE /\ player' = [player EXCEPT !.flares = player.flares - 1]
            /\ rooms' = [p \in GameGrid |->
                  IF /\ p[2] - player.y \in {-1, 0, 1}
                     /\ p[3] - player.x \in {-1, 0, 1}
                     /\ ~(p[2] = player.y /\ p[3] = player.x)
                  THEN [rooms[p] EXCEPT !.seen = TRUE]
                  ELSE rooms[p]]
            /\ Return(<<Ev("INFO", "flare"), Ev("MAP", "")>>, 0, TRUE)
    /\ UNCHANGED <<gen, mode, encounter, awaiting_spell, shop_state, sess>>

\* _use_flare
UseFlare ==
    /\ Exploring
    /\ IF player.flares < 1
       THEN /\ Return(<<Ev("INFO", "no_flares")>>, 0, TRUE)
            /\ UNCHANGED <<player, rooms>>
       ELSE /\ player' = [player EXCEPT !.flares = player.flares - 1]
            /\ rooms' = [p \in GameGrid |->
                  IF /\ p[1] = player.z
                     /\ p[2] - player.y \in {-1, 0, 1}
                     /\ p[3] - player.x \in {-1, 0, 1}
                     /\ ~(p[2] = player.y /\ p[3] = player.x)
                  THEN [rooms[p] EXCEPT !.seen = TRUE]
                  ELSE rooms[p]]
            /\ Return(<<Ev("INFO", "flare"), Ev("MAP", "")>>, 0, TRUE)
    /\ UNCHANGED <<gen, mode, encounter, awaiting_spell, shop_state, sess>>

\* _award_treasure without its test of the found set.
AwardTreasureNoCheck(p, treasure_id) ==
    [player |-> [p EXCEPT !.treasures_found = @ \cup {treasure_id}],
     events |-> <<EvN("LOOT", "treasure", treasure_id)>>]

\* An award that announces the treasure and does not record it.
AwardTreasureDropped(p, treasure_id) ==
    IF treasure_id \in p.treasures_found
    THEN [player |-> p, events |-> <<>>]
    ELSE [player |-> p, events |-> <<EvN("LOOT", "treasure", treasure_id)>>]

\* _award_treasure(treasure_id): the player and the events returned.
AwardTreasure(p, treasure_id) ==
    IF treasure_id \in p.treasures_found
    THEN [player |-> p, events |-> <<>>]
    ELSE [player |-> [p EXCEPT !.treasures_found = @ \cup {treasure_id}],
          events |-> <<EvN("LOOT", "treasure", treasure_id)>>]

\* _random_relocate(any_floor): the players it can leave. The draws of a
\* rejected iteration are not counted in rngDraws.
\* A relocation that may draw the cell the player stands on.
RandomRelocateAnywhere(p, any_floor) ==
    {[p EXCEPT !.z = nz, !.y = ny, !.x = nx] :
        <<nz, ny, nx>> \in {q \in GameGrid : any_floor \/ q[1] = p.z}}

RandomRelocate(p, any_floor) ==
    {[p EXCEPT !.z = nz, !.y = ny, !.x = nx] :
        <<nz, ny, nx>> \in
            {q \in GameGrid :
                /\ (any_floor \/ q[1] = p.z)
                /\ ~(q[2] = p.y /\ q[3] = p.x)}}

\* _apply_attribute_change without its clamps.
ApplyAttributeChangeNoClamp(p, target, delta) ==
    CASE target = "STR" -> [p EXCEPT !.str_ = p.str_ + delta]
      [] target = "DEX" -> [p EXCEPT !.dex = p.dex + delta]
      [] target = "IQ" -> [p EXCEPT !.iq = p.iq + delta]
      [] OTHER -> [p EXCEPT !.mhp = p.mhp + delta, !.hp = p.hp + delta]

\* An attribute change that leaves the hit points alone but for the cap.
ApplyAttributeChangeCapOnly(p, target, delta) ==
    CASE target = "STR" -> [p EXCEPT !.str_ = Max(1, Min(18, p.str_ + delta))]
      [] target = "DEX" -> [p EXCEPT !.dex = Max(1, Min(18, p.dex + delta))]
      [] target = "IQ" -> [p EXCEPT !.iq = Max(1, Min(18, p.iq + delta))]
      [] OTHER ->
            LET mhp == Max(1, p.mhp + delta)
            IN  [p EXCEPT !.mhp = mhp, !.hp = Min(p.hp, mhp)]

\* Player field changes of _apply_attribute_change, delta = change * sign.
ApplyAttributeChange(p, target, delta) ==
    CASE target = "STR" -> [p EXCEPT !.str_ = Max(1, Min(18, p.str_ + delta))]
      [] target = "DEX" -> [p EXCEPT !.dex = Max(1, Min(18, p.dex + delta))]
      [] target = "IQ" -> [p EXCEPT !.iq = Max(1, Min(18, p.iq + delta))]
      [] OTHER ->
            LET mhp == Max(1, p.mhp + delta)
            IN  [p EXCEPT !.mhp = mhp, !.hp = Max(1, Min(p.hp + delta, mhp))]

\* The number of warp notices among the events: the depth of the recursion
\* of _enter_room in the step in progress.
EnterDepth == Cardinality({i \in DOMAIN events : events[i].text = "warp"})

\* A room entry that takes the treasure whether or not a monster guards it.
EnterRoomAwardsAtOnce ==
    /\ pc = "entering"
    /\ LET room == rooms[Here]
           award == IF room.treasure_id # 0
                    THEN AwardTreasure(player, room.treasure_id)
                    ELSE [player |-> player, events |-> <<>>]
       IN  /\ player' = award.player
           /\ rooms' = [rooms EXCEPT ![Here].seen = TRUE,
                                     ![Here].treasure_id = 0]
           /\ events' = events \o award.events \o <<Ev("INFO", "empty_room")>>
           /\ rngDraws' = rngDraws
           /\ pc' = Idle
    /\ UNCHANGED <<gen, mode, encounter, awaiting_spell, shop_state, calls,
                   needs_input, sess>>

\* _enter_room: one call. A warp relocates and calls _enter_room again.
EnterRoom ==
    /\ pc = "entering"
    /\ LET here == Here
           room == rooms[here]
           seenRooms == [rooms EXCEPT ![here].seen = TRUE]
       IN  IF room.monster_level > 0
           THEN \* _start_encounter(level)
                \E v \in RandAmount(0, 3) :
                   /\ rooms' = seenRooms
                   /\ encounter' = [monster_level |-> room.monster_level,
                                    vitality |-> 3 * room.monster_level + v]
                   /\ player' = [player EXCEPT !.fatigued = FALSE,
                                               !.temp_armor_bonus = 0]
                   /\ mode' = "ENCOUNTER"
                   /\ events' = events \o <<Ev("COMBAT", "facing"),
                                            Ev("INFO", "encounter_mode")>>
                   /\ rngDraws' = rngDraws + 1
                   /\ pc' = Idle
           ELSE LET award == IF room.treasure_id # 0
                             THEN AwardTreasure(player, room.treasure_id)
                             ELSE [player |-> player, events |-> <<>>]
                    p1 == award.player
                    ev1 == events \o award.events
                    r1 == [seenRooms EXCEPT ![here].treasure_id = 0]
                    narrate(text) ==
                        /\ rooms' = r1
                        /\ player' = p1
                        /\ events' = ev1 \o <<Ev("INFO", text)>>
                        /\ rngDraws' = rngDraws
                        /\ pc' = Idle
                IN  /\ UNCHANGED <<encounter, mode>>
                    /\ CASE room.feature = "MIRROR" -> narrate("mirror_here")
                         [] room.feature = "SCROLL" -> narrate("scroll_here")
                         [] room.feature = "CHEST" -> narrate("chest_here")
                         [] room.feature = "FLARES" ->
                              \E gained \in RandAmount(1, 5) :
                                 /\ rooms' = [r1 EXCEPT ![here].feature = "EMPTY"]
                                 /\ player' = [p1 EXCEPT !.flares = @ + gained]
                                 /\ events' = ev1 \o <<Ev("INFO", "pick_up_flares")>>
                                 /\ rngDraws' = rngDraws + 1
                                 /\ pc' = Idle
                         [] room.feature = "POTION" -> narrate("potion_here")
                         [] room.feature = "VENDOR" -> narrate("vendor_here")
                         [] room.feature = "THIEF" ->
                              \E roll \in RandAmount(1, 50) :
                                 LET stolen == Min(roll, p1.gold)
                                 IN  /\ rooms' = [r1 EXCEPT ![here].feature = "EMPTY"]
                                     /\ player' = [p1 EXCEPT !.gold = @ - stolen]
                                     /\ events' = ev1 \o <<Ev("INFO", "thief")>>
                                     /\ rngDraws' = rngDraws + 1
                                     /\ pc' = Idle
                         [] room.feature = "WARP" ->
                              /\ EnterDepth < MaxEnterDepth
                              /\ \E p2 \in RandomRelocate(p1, TRUE) :
                                    player' = p2
                              /\ rooms' = r1
                              /\ events' = ev1 \o <<Ev("INFO", "warp")>>
                              /\ rngDraws' = rngDraws + 3
                              /\ pc' = "entering"
                         [] room.feature = "STAIRS_UP" -> narrate("stairs_up_here")
                         [] room.feature = "STAIRS_DOWN" -> narrate("stairs_down_here")
                         [] room.feature = "EXIT" -> narrate("exit_here")
                         [] OTHER -> narrate("empty_room")
    /\ UNCHANGED <<gen, awaiting_spell, shop_state, calls, needs_input, sess>>

\* start_events: the first room is entered.
StartEvents ==
    /\ pc = "new"
    /\ GoEnter(<<>>, 0)
    /\ UNCHANGED <<rooms, gen, player, mode, encounter, awaiting_spell,
                   shop_state, sess>>

\* _use_mirror in a mirror room: the [events, draws] it can return.
MirrorOutcomes(p, r) ==
    LET locations == {q \in GameGrid :
                        /\ r[q].treasure_id # 0
                        /\ r[q].treasure_id \notin p.treasures_found}
    IN  UNION {
          IF roll > p.iq
          THEN UNION {
                 IF r2 <= 5
                 THEN {[events |-> <<Ev("INFO", vision)>>, draws |-> 3] :
                         vision \in {"cloudy", "coffin", "dragon", "chimaera",
                                     "exit_vision"}}
                 ELSE {[events |-> <<EvAt("INFO", "see_treasure", treasure,
                                          <<tz, ty, tx>>)>>,
                        draws |-> 6] :
                         treasure \in RandInt(1, TreasureCount),
                         tx \in RandInt(1, SIZE), ty \in RandInt(1, SIZE),
                         tz \in RandInt(1, SIZE)} :
                 r2 \in RandInt(1, 10)}
          ELSE IF locations = {}
          THEN {[events |-> <<Ev("INFO", "cloudy")>>, draws |-> 1]}
          ELSE {[events |-> <<EvAt("INFO", "see_treasure", r[q].treasure_id,
                                   <<q[1] + 1, q[2] + 1, q[3] + 1>>)>>,
                 draws |-> 2] : q \in locations} :
          roll \in RandInt(1, 50)}

\* _use_mirror
UseMirror ==
    /\ Exploring
    /\ IF CurrentRoom.feature # "MIRROR"
       THEN Return(<<Ev("INFO", "no_mirror")>>, 0, TRUE)
       ELSE \E o \in MirrorOutcomes(player, rooms) :
              Return(o.events, o.draws, TRUE)
    /\ UNCHANGED <<rooms, gen, player, mode, encounter, awaiting_spell,
                   shop_state, sess>>

\* _open_chest
OpenChest ==
    /\ Exploring
    /\ IF CurrentRoom.feature # "CHEST"
       THEN /\ Return(<<Ev("INFO", "no_chest")>>, 0, TRUE)
            /\ UNCHANGED <<rooms, player>>
       ELSE /\ rooms' = [rooms EXCEPT ![Here].feature = "EMPTY"]
            /\ \E roll \in RandInt(1, 5) :
                 IF roll = 1
                 THEN LET tier == Max(0, player.armor_tier - 1)
                      IN  /\ player' = [player EXCEPT !.armor_tier = tier,
                                            !.armor_name = ARMOR_NAMES(tier)]
                          /\ Return(<<Ev("INFO", "chest_explodes")>>, 1, TRUE)
                 ELSE IF roll = 2
                 THEN /\ UNCHANGED player
                      /\ Return(<<Ev("INFO", "chest_empty")>>, 1, TRUE)
                 ELSE \E d \in RandAmount(0, 20) :
                        /\ player' = [player EXCEPT !.gold = @ + 10 + d]
                        /\ Return(<<Ev("INFO", "chest_gold")>>, 2, TRUE)
    /\ UNCHANGED <<gen, mode, encounter, awaiting_spell, shop_state, sess>>

\* _read_scroll
ReadScroll ==
    /\ Exploring
    /\ IF CurrentRoom.feature # "SCROLL"
       THEN /\ Return(<<Ev("INFO", "nothing_to_read")>>, 0, TRUE)
            /\ UNCHANGED <<rooms, player>>
       ELSE /\ rooms' = [rooms EXCEPT ![Here].feature = "EMPTY"]
            /\ \E n \in RandInt(1, 5) :
                 player' = [player EXCEPT !.spells[Spell(n)] = @ + 1]
            /\ Return(<<Ev("INFO", "scroll_contains")>>, 1, TRUE)
    /\ UNCHANGED <<gen, mode, encounter, awaiting_spell, shop_state, sess>>

\* _drink_potion
DrinkPotion ==
    /\ Exploring
    /\ IF CurrentRoom.feature # "POTION"
       THEN /\ Return(<<Ev("INFO", "no_potion")>>, 0, TRUE)
            /\ UNCHANGED <<rooms, player>>
       ELSE /\ rooms' = [rooms EXCEPT ![Here].feature = "EMPTY"]
            /\ \E roll \in RandInt(1, 5) :
                 IF roll = 1
                 THEN \E r \in RandAmount(1, 10) :
                        /\ player' = [player EXCEPT
                              !.hp = Min(player.mhp, player.hp + 5 + r)]
                        /\ Return(<<Ev("INFO", "potion_heals")>>, 2, TRUE)
                 ELSE \E change \in RandAmount(1, 6),
                         effect \in {"STR", "DEX", "IQ", "MHP"},
                         sign \in {-1, 1} :
                        /\ player' = ApplyAttributeChange(player, effect,
                                                          change * sign)
                        /\ Return(<<Ev("INFO", "potion_energies")>>, 4, TRUE)
    /\ UNCHANGED <<gen, mode, encounter, awaiting_spell, shop_state, sess>>

\* _open_vendor
OpenVendor ==
    /\ Exploring
    /\ IF CurrentRoom.feature # "VENDOR"
       THEN /\ Return(<<Ev("INFO", "no_vendor")>>, 0, TRUE)
            /\ UNCHANGED shop_state
       ELSE /\ shop_state' = [phase |-> "category", category |-> "none"]
            /\ Return(<<EvAt("PROMPT", "he_is_selling", 0,
                              <<"1", "2", "3", "4", "0">>)>>, 0, TRUE)
    /\ UNCHANGED <<rooms, gen, player, mode, encounter, awaiting_spell, sess>>

(***************************************************************************)
(* The encounter handlers of Game (engine.py). Each is the set of the      *)
(* outcomes its draws can give: [player, rooms, mode, encounter, events,   *)
(* draws, enter], enter saying that the handler ends in _enter_room.       *)
(***************************************************************************)
\* Game._monster_attack: [player, dead, events, draws].
MonsterAttack(p, level) ==
    LET dodge_score == 20 + 5 * (11 - level) + 2 * p.dex
        armor == p.armor_tier + p.temp_armor_bonus
    IN  {[player |-> p, dead |-> FALSE,
          events |-> <<Ev("COMBAT", "dodge")>>, draws |-> 1] :
            b \in {x \in RollAtMost(dodge_score) : x}}
        \cup
        {LET damage == Max(d + 3 - armor, 0)
             hp == p.hp - damage
         IN  [player |-> [p EXCEPT !.hp = hp], dead |-> hp <= 0,
              events |-> IF hp <= 0
                         THEN <<Ev("COMBAT", "hits_you"), Ev("INFO", "died")>>
                         ELSE <<Ev("COMBAT", "hits_you")>>,
              draws |-> 2] :
            d \in RandAmount(0, level - 1),
            b \in {x \in RollAtMost(dodge_score) : ~x}}

\* The loot of _handle_monster_death were it the treasure and the gold.
LootBoth(p, r, here, level) ==
    {[player |-> [AwardTreasure(p, r[here].treasure_id).player
                    EXCEPT !.gold = @ + 5 * level + g],
      rooms |-> [r EXCEPT ![here].treasure_id = 0],
      events |-> AwardTreasure(p, r[here].treasure_id).events
                    \o <<Ev("LOOT", "gold")>>,
      draws |-> 1] : g \in RandAmount(0, 20)}

\* The loot of _handle_monster_death: [player, rooms, events, draws].
Loot(p, r, here, level) ==
    IF r[here].treasure_id # 0
    THEN {[player |-> AwardTreasure(p, r[here].treasure_id).player,
           rooms |-> [r EXCEPT ![here].treasure_id = 0],
           events |-> AwardTreasure(p, r[here].treasure_id).events,
           draws |-> 0]}
    ELSE {[player |-> [p EXCEPT !.gold = @ + 5 * level + g],
           rooms |-> r,
           events |-> <<Ev("LOOT", "gold")>>,
           draws |-> 1] : g \in RandAmount(0, 20)}

\* Game._handle_monster_death, after the events evs and the draws n.
HandleMonsterDeath(p, r, enc, evs, n) ==
    LET here == <<p.z, p.y, p.x>>
        attacks(final) ==
            IF final
            THEN MonsterAttack(p, enc.monster_level)
            ELSE {[player |-> p, dead |-> FALSE, events |-> <<>>, draws |-> 0]}
    IN  UNION {UNION {
            {[player |-> l.player,
              rooms |-> [l.rooms EXCEPT ![here].monster_level = 0],
              mode |-> "EXPLORE",
              encounter |-> NoEncounter,
              events |-> evs \o <<Ev("COMBAT", "expires")>>
                          \o (IF final THEN <<Ev("COMBAT", "final_attack")>>
                              ELSE <<>>)
                          \o a.events \o l.events,
              draws |-> n + 1 + a.draws + l.draws,
              enter |-> FALSE] :
                l \in Loot(a.player, r, here, enc.monster_level)} :
            a \in attacks(final)} : final \in BOOLEAN}

\* The end of a round: Game._monster_attack, after the events evs and the
\* draws n.
Retaliation(p, r, enc, evs, n) ==
    {[player |-> a.player,
      rooms |-> r,
      mode |-> IF a.dead THEN "GAME_OVER" ELSE "ENCOUNTER",
      encounter |-> enc,
      events |-> evs \o a.events,
      draws |-> n + a.draws,
      enter |-> FALSE] : a \in MonsterAttack(p, enc.monster_level)}

\* Game._fight_round
FightRoundOutcomes(p, r, enc) ==
    LET level == enc.monster_level
        attack_score == 20 + 5 * (11 - level) + p.dex + 3 * p.weapon_tier
        missed == {x \in RollAtMost(attack_score) : ~x}
        landed == {x \in RollAtMost(attack_score) : x}
        afterHit(d, brk) ==
            LET damage == Max(p.weapon_tier + (p.str_ \div 3) + d - 2, 1)
                enc1 == [enc EXCEPT !.vitality = enc.vitality - damage]
                hit == <<Ev("COMBAT", "you_hit")>>
            IN  IF enc1.vitality <= 0
                THEN HandleMonsterDeath(p, r, enc1, hit, 2)
                ELSE IF brk /\ p.weapon_tier > 0
                THEN Retaliation([p EXCEPT !.weapon_tier = 0,
                                           !.weapon_name = "~~broken"],
                                 r, enc1,
                                 hit \o <<Ev("INFO", "weapon_breaks")>>, 3)
                ELSE Retaliation(p, r, enc1, hit, 3)
    IN  UNION {Retaliation(p, r, enc, <<Ev("COMBAT", "evades")>>, 1) :
                  b \in missed}
        \cup UNION {afterHit(c[1], c[2]) :
                  c \in {x \in RandAmount(0, 4) \X BOOLEAN : landed # {}}}

\* _run_attempt without its test of player.fatigued.
RunAttemptNoFatigueCheck(p, r, enc) ==
    {[player |-> p2, rooms |-> r, mode |-> "EXPLORE",
      encounter |-> NoEncounter,
      events |-> <<Ev("INFO", "slip_away")>>, draws |-> 3,
      enter |-> TRUE] : p2 \in RandomRelocate(p, FALSE)}
    \cup
    {[player |-> [p EXCEPT !.fatigued = TRUE], rooms |-> r,
      mode |-> "ENCOUNTER", encounter |-> enc,
      events |-> <<Ev("INFO", "escape_in_vain")>>, draws |-> 1,
      enter |-> FALSE]}

\* A run that gets away and forgets to leave the encounter mode.
RunAttemptKeepsMode(p, r, enc) ==
    IF p.fatigued
    THEN {[player |-> p, rooms |-> r, mode |-> "ENCOUNTER", encounter |-> enc,
           events |-> <<Ev("INFO", "fatigued")>>, draws |-> 0, enter |-> FALSE]}
    ELSE {[player |-> p2, rooms |-> r, mode |-> "ENCOUNTER",
           encounter |-> NoEncounter,
           events |-> <<Ev("INFO", "slip_away")>>, draws |-> 3,
           enter |-> TRUE] : p2 \in RandomRelocate(p, FALSE)}
         \cup
         {[player |-> [p EXCEPT !.fatigued = TRUE], rooms |-> r,
           mode |-> "ENCOUNTER", encounter |-> enc,
           events |-> <<Ev("INFO", "escape_in_vain")>>, draws |-> 1,
           enter |-> FALSE]}

\* A run whose failure also lets the monster bite.
RunAttemptBitten(p, r, enc) ==
    IF p.fatigued
    THEN {[player |-> p, rooms |-> r, mode |-> "ENCOUNTER", encounter |-> enc,
           events |-> <<Ev("INFO", "fatigued")>>, draws |-> 0, enter |-> FALSE]}
    ELSE {[player |-> p2, rooms |-> r, mode |-> "EXPLORE",
           encounter |-> NoEncounter,
           events |-> <<Ev("INFO", "slip_away")>>, draws |-> 3,
           enter |-> TRUE] : p2 \in RandomRelocate(p, FALSE)}
         \cup
         {[player |-> [p EXCEPT !.fatigued = TRUE, !.hp = @ - 1], rooms |-> r,
           mode |-> "ENCOUNTER", encounter |-> enc,
           events |-> <<Ev("INFO", "escape_in_vain")>>, draws |-> 1,
           enter |-> FALSE]}

\* Game._run_attempt
RunAttemptOutcomes(p, r, enc) ==
    IF p.fatigued
    THEN {[player |-> p, rooms |-> r, mode |-> "ENCOUNTER", encounter |-> enc,
           events |-> <<Ev("INFO", "fatigued")>>, draws |-> 0, enter |-> FALSE]}
    ELSE {[player |-> p2, rooms |-> r, mode |-> "EXPLORE",
           encounter |-> NoEncounter,
           events |-> <<Ev("INFO", "slip_away")>>, draws |-> 3,
           enter |-> TRUE] : p2 \in RandomRelocate(p, FALSE)}
         \cup
         {[player |-> [p EXCEPT !.fatigued = TRUE], rooms |-> r,
           mode |-> "ENCOUNTER", encounter |-> enc,
           events |-> <<Ev("INFO", "escape_in_vain")>>, draws |-> 1,
           enter |-> FALSE]}

\* Game._cast_spell
CastSpellOutcomes(p, r, enc, spell) ==
    LET resolve(enc1, evs, n) ==
            IF enc1.vitality <= 0
            THEN HandleMonsterDeath(p, r, enc1, evs, n)
            ELSE Retaliation(p, r, enc1, evs, n)
    IN  CASE spell = "PROTECTION" ->
               Retaliation([p EXCEPT !.temp_armor_bonus = @ + 3], r, enc,
                           <<Ev("INFO", "armor_glows")>>, 0)
          [] spell = "FIREBALL" ->
               UNION {resolve([enc EXCEPT !.vitality =
                                  @ - Max(roll - (p.iq \div 3), 0)],
                              <<Ev("COMBAT", "fireball")>>, 1) :
                        roll \in RandAmount(1, 5)}
          [] spell = "LIGHTNING" ->
               UNION {resolve([enc EXCEPT !.vitality =
                                  @ - Max(roll - (p.iq \div 2), 0)],
                              <<Ev("COMBAT", "thunderstruck")>>, 1) :
                        roll \in RandAmount(1, 10)}
          [] spell = "WEAKEN" ->
               resolve([enc EXCEPT !.vitality = @ \div 2],
                       <<Ev("COMBAT", "green_mist")>>, 0)
          [] OTHER ->
               {[player |-> p2, rooms |-> r, mode |-> "EXPLORE",
                 encounter |-> NoEncounter,
                 events |-> <<Ev("INFO", "transported")>>, draws |-> 2,
                 enter |-> TRUE] : p2 \in RandomRelocate(p, FALSE)}

\* Game._handle_spell_choice(raw), which has cleared _awaiting_spell.
SpellChoiceOutcomes(p, r, enc, raw) ==
    LET same(ev) == {[player |-> p, rooms |-> r, mode |-> "ENCOUNTER",
                      encounter |-> enc, events |-> <<ev>>, draws |-> 0,
                      enter |-> FALSE]}
        n == CASE raw = "1" -> 1 [] raw = "2" -> 2 [] raw = "3" -> 3
               [] raw = "4" -> 4 [] OTHER -> 5
        charges == p.spells[Spell(n)]
    IN  IF raw \notin {"1", "2", "3", "4", "5"}
        THEN same(Ev("ERROR", "choose_1_5"))
        ELSE IF p.iq < 12
        THEN same(Ev("INFO", "insufficient_intelligence"))
        ELSE IF charges <= 0
        THEN same(Ev("INFO", "know_not_spell"))
        ELSE CastSpellOutcomes([p EXCEPT !.spells[Spell(n)] = charges - 1],
                               r, enc, Spell(n))

\* An outcome of an encounter handler becomes the next state.
Apply(o) ==
    /\ player' = o.player
    /\ rooms' = o.rooms
    /\ mode' = o.mode
    /\ encounter' = o.encounter
    /\ calls' = calls + 1
    /\ events' = o.events
    /\ rngDraws' = o.draws
    /\ needs_input' = TRUE
    /\ pc' = IF o.enter THEN "entering" ELSE Idle

\* _handle_encounter with no encounter: there is nothing to fight.
NothingToFight ==
    /\ mode' = "EXPLORE"
    /\ Return(<<Ev("ERROR", "nothing_to_fight")>>, 0, TRUE)
    /\ UNCHANGED <<player, rooms, encounter>>

\* _handle_encounter: F
FightRound ==
    /\ Fighting
    /\ IF encounter = NoEncounter
       THEN NothingToFight
       ELSE \E o \in FightRoundOutcomes(player, rooms, encounter) : Apply(o)
    /\ UNCHANGED <<gen, awaiting_spell, shop_state, sess>>

\* _handle_encounter: R
RunAttempt ==
    /\ Fighting
    /\ IF encounter = NoEncounter
       THEN NothingToFight
       ELSE \E o \in RunAttemptOutcomes(player, rooms, encounter) : Apply(o)
    /\ UNCHANGED <<gen, awaiting_spell, shop_state, sess>>

\* _handle_encounter: S
SpellPrompt ==
    /\ Fighting
    /\ IF encounter = NoEncounter
       THEN NothingToFight /\ UNCHANGED awaiting_spell
       ELSE /\ awaiting_spell' = TRUE
            /\ Return(<<Ev("PROMPT", "choose_spell")>>, 0, TRUE)
            /\ UNCHANGED <<player, rooms, mode, encounter>>
    /\ UNCHANGED <<gen, shop_state, sess>>

\* step: a spell choice is awaited.
SpellChoice ==
    /\ AcceptsInput /\ ~Terminal /\ shop_state = NoShop /\ awaiting_spell
    /\ awaiting_spell' = FALSE
    /\ \E tok \in Tokens \ {""} :
          \E o \in SpellChoiceOutcomes(player, rooms, encounter, tok) :
             Apply(o)
    /\ UNCHANGED <<gen, shop_state, sess>>

(***************************************************************************)
(* The vendor handlers of Game (engine.py).                                *)
(***************************************************************************)
InShop == AcceptsInput /\ ~Terminal /\ shop_state # NoShop

Digit(raw) ==
    CASE raw = "0" -> 0 [] raw = "1" -> 1 [] raw = "2" -> 2 [] raw = "3" -> 3
      [] raw = "4" -> 4 [] OTHER -> 5

CheatNotice == <<Ev("INFO", "dont_cheat")>>

\* _handle_shop_category
ShopCategory ==
    /\ InShop /\ shop_state.phase = "category"
    /\ \E raw \in Tokens \ {""} :
          CASE raw = "0" ->
                 /\ shop_state' = NoShop
                 /\ Return(<<Ev("INFO", "another_time")>>, 0, TRUE)
            [] raw \in {"1", "2", "3", "4"} ->
                 /\ shop_state' = [phase |-> "item", category |-> raw]
                 /\ Return(<<Ev("PROMPT", "items")>>, 0, TRUE)
            [] OTHER ->
                 /\ UNCHANGED shop_state
                 /\ Return(<<Ev("ERROR", "choose_1_4")>>, 0, TRUE)
    /\ UNCHANGED <<rooms, gen, player, mode, encounter, awaiting_spell, sess>>

\* _handle_shop_weapons(raw): [player, shop_state, events].
ShopWeapons(p, shop, raw) ==
    LET tier == Digit(raw)
        price == WEAPON_PRICES(tier)
    IN  IF raw \notin {"1", "2", "3"}
        THEN [player |-> p, shop_state |-> shop,
              events |-> <<Ev("ERROR", "choose_1_3")>>]
        ELSE IF p.gold < price
        THEN [player |-> p, shop_state |-> shop, events |-> CheatNotice]
        ELSE [player |->
                 IF tier > p.weapon_tier
                 THEN [p EXCEPT !.weapon_tier = tier,
                                !.weapon_name = WEAPON_NAMES(tier),
                                !.gold = @ - price]
                 ELSE [p EXCEPT !.gold = @ - price],
              shop_state |-> NoShop,
              events |-> <<Ev("INFO", "fine_weapon")>>]

\* _handle_shop_armor(raw)
ShopArmor(p, shop, raw) ==
    LET tier == Digit(raw)
        price == ARMOR_PRICES(tier)
    IN  IF raw \notin {"1", "2", "3"}
        THEN [player |-> p, shop_state |-> shop,
              events |-> <<Ev("ERROR", "choose_1_3")>>]
        ELSE IF p.gold < price
        THEN [player |-> p, shop_state |-> shop, events |-> CheatNotice]
        ELSE [player |->
                 IF tier > p.armor_tier
                 THEN [p EXCEPT !.armor_tier = tier,
                                !.armor_name = ARMOR_NAMES(tier),
                                !.gold = @ - price]
                 ELSE [p EXCEPT !.gold = @ - price],
              shop_state |-> NoShop,
              events |-> <<Ev("INFO", "armor_fitted")>>]

\* A vendor who sells scrolls on credit.
ShopScrollsOnCredit(p, shop, raw) ==
    LET spell == Spell(Digit(raw))
        price == SPELL_PRICES(spell)
    IN  IF raw \notin {"1", "2", "3", "4", "5"}
        THEN [player |-> p, shop_state |-> shop,
              events |-> <<Ev("ERROR", "choose_1_5")>>]
        ELSE [player |-> [p EXCEPT !.gold = @ - price, !.spells[spell] = @ + 1],
              shop_state |-> NoShop,
              events |-> <<Ev("INFO", "scroll_is_yours")>>]

\* _handle_shop_scrolls(raw)
ShopScrolls(p, shop, raw) ==
    LET spell == Spell(Digit(raw))
        price == SPELL_PRICES(spell)
    IN  IF raw \notin {"1", "2", "3", "4", "5"}
        THEN [player |-> p, shop_state |-> shop,
              events |-> <<Ev("ERROR", "choose_1_5")>>]
        ELSE IF p.gold < price
        THEN [player |-> p, shop_state |-> shop, events |-> CheatNotice]
        ELSE [player |-> [p EXCEPT !.gold = @ - price, !.spells[spell] = @ + 1],
              shop_state |-> NoShop,
              events |-> <<Ev("INFO", "scroll_is_yours")>>]

\* _handle_shop_potions(raw)
ShopPotions(p, shop, raw) ==
    CASE raw = "1" ->
           IF p.gold < POTION_PRICES("HEALING")
           THEN [player |-> p, shop_state |-> shop, events |-> CheatNotice]
           ELSE [player |-> [p EXCEPT !.gold = @ - POTION_PRICES("HEALING"),
                                      !.hp = Min(p.mhp, p.hp + 10)],
                 shop_state |-> NoShop,
                 events |-> <<Ev("INFO", "quaff_healing")>>]
      [] raw = "2" ->
           IF p.gold < POTION_PRICES("ATTRIBUTE")
           THEN [player |-> p, shop_state |-> shop, events |-> CheatNotice]
           ELSE [player |-> p,
                 shop_state |-> [shop EXCEPT !.phase = "attribute"],
                 events |-> <<Ev("PROMPT", "attribute_enhancer")>>]
      [] OTHER ->
           [player |-> p, shop_state |-> shop,
            events |-> <<Ev("ERROR", "choose_1_or_2")>>]

\* _handle_shop_item and _handle_shop_item_choice
ShopItem ==
    /\ InShop /\ shop_state.phase = "item"
    /\ \E raw \in Tokens \ {""} :
          CASE raw = "0" ->
                 /\ shop_state' = NoShop
                 /\ UNCHANGED player
                 /\ Return(<<Ev("INFO", "another_time")>>, 0, TRUE)
            [] raw \in {"1", "2", "3", "4", "5"} ->
                 LET o == CASE shop_state.category = "1" ->
                                  ShopWeapons(player, shop_state, raw)
                            [] shop_state.category = "2" ->
                                  ShopArmor(player, shop_state, raw)
                            [] shop_state.category = "3" ->
                                  ShopScrolls(player, shop_state, raw)
                            [] shop_state.category = "4" ->
                                  ShopPotions(player, shop_state, raw)
                            [] OTHER ->
                                  [player |-> player, shop_state |-> shop_state,
                                   events |-> <<Ev("ERROR", "choose_1_4")>>]
                 IN  /\ player' = o.player
                     /\ shop_state' = o.shop_state
                     /\ Return(o.events, 0, TRUE)
            [] OTHER ->
                 /\ UNCHANGED <<shop_state, player>>
                 /\ Return(<<Ev("ERROR", "choose_1_5")>>, 0, TRUE)
    /\ UNCHANGED <<rooms, gen, mode, encounter, awaiting_spell, sess>>

\* _handle_shop_attribute
ShopAttribute ==
    /\ InShop /\ shop_state.phase = "attribute"
    /\ \E raw \in Tokens \ {""} :
          IF raw = "0"
          THEN /\ shop_state' = NoShop
               /\ UNCHANGED player
               /\ Return(<<Ev("INFO", "another_time")>>, 0, TRUE)
          ELSE IF raw \notin {"1", "2", "3", "4"}
          THEN /\ UNCHANGED <<shop_state, player>>
               /\ Return(<<Ev("ERROR", "choose_1_4")>>, 0, TRUE)
          ELSE IF player.gold < POTION_PRICES("ATTRIBUTE")
          THEN /\ shop_state' = NoShop
               /\ UNCHANGED player
               /\ Return(CheatNotice, 0, TRUE)
          ELSE \E change \in RandAmount(1, 6) :
                 LET target == CASE raw = "1" -> "STR" [] raw = "2" -> "DEX"
                                 [] raw = "3" -> "IQ" [] OTHER -> "MHP"
                 IN  /\ player' = ApplyAttributeChange(
                            [player EXCEPT !.gold = @ - POTION_PRICES("ATTRIBUTE")],
                            target, change)
                     /\ shop_state' = NoShop
                     /\ Return(<<Ev("INFO", "potion_takes_effect")>>, 1, TRUE)
    /\ UNCHANGED <<rooms, gen, mode, encounter, awaiting_spell, sess>>

(***************************************************************************)
(* The game: start_events once, then steps.                                *)
(***************************************************************************)
Next ==
    \/ StartEvents
    \/ EnterRoom
    \/ StepEmpty
    \/ StepTerminal
    \/ StepUnknown
    \/ Help
    \/ Move
    \/ StairsUp
    \/ StairsDown
    \/ AttemptExit
    \/ UseFlare
    \/ UseMirror
    \/ OpenChest
    \/ ReadScroll
    \/ DrinkPotion
    \/ OpenVendor
    \/ FightRound
    \/ RunAttempt
    \/ SpellPrompt
    \/ SpellChoice
    \/ ShopCategory
    \/ ShopItem
    \/ ShopAttribute

Spec == Init /\ [][Next]_vars

(***************************************************************************)
(* Properties of the game.                                                 *)
(***************************************************************************)
HasEvent(text) == \E i \in DOMAIN events : events[i].text = text
HasLoot == \E i \in DOMAIN events : events[i].kind = "LOOT"

\* The step just finished killed the monster, whose final attack killed
\* the player.
FinalRetaliationDeath ==
    /\ pc = Idle
    /\ HasEvent("expires") /\ HasEvent("final_attack") /\ HasEvent("died")

\* C4: when the monster's vitality reaches 0 and its final retaliation
\* brings the player's HP to 0 or below, the game is in GameOver, the step
\* granted no loot (no gold, no treasure, no loot event), the encounter is
\* closed and the room's monster_level is 0.
C4_FinalDeathNoLoot ==
    [][FinalRetaliationDeath' /\ events' # events =>
          /\ mode' = "GAME_OVER"
          /\ player'.gold = player.gold
          /\ player'.treasures_found = player.treasures_found
          /\ ~HasLoot'
          /\ encounter' = NoEncounter
          /\ rooms'[Here'].monster_level = 0]_vars

\* C5: a player whose HP is 0 or below is in GameOver, and GameOver is
\* never left.
C5_DeadIsGameOver ==
    /\ [](player.hp <= 0 => mode = "GAME_OVER")
    /\ [][mode = "GAME_OVER" => mode' = "GAME_OVER"]_vars

\* The step in progress defeated the monster and the player survived.
DefeatedAndSurvived ==
    /\ mode = "ENCOUNTER" /\ encounter # NoEncounter
    /\ HasEvent("expires")' /\ events' # events
    /\ player'.hp > 0

\* C6: when a monster is defeated and the player survives, the loot is
\* exclusive: the room's uncollected treasure joins the found set and gold
\* is unchanged, or else gold grows by 5 * level + d, d in 0..20, and the
\* found set is unchanged.
C6_LootExclusive ==
    [][DefeatedAndSurvived =>
          IF /\ CurrentRoom.treasure_id # 0
             /\ CurrentRoom.treasure_id \notin player.treasures_found
          THEN /\ player'.treasures_found =
                     player.treasures_found \cup {CurrentRoom.treasure_id}
               /\ player'.gold = player.gold
          ELSE /\ player'.gold - player.gold \in
                     {5 * encounter.monster_level + d : d \in 0..20}
               /\ player'.treasures_found = player.treasures_found]_vars

\* A monster guarding a treasure is defeated by a player who survives.
C6_Witness ==
    /\ HasEvent("expires") /\ HasEvent("treasure") /\ ~HasEvent("gold")
    /\ player.hp > 0

\* The events the step adds: all of events' but inside _enter_room, which
\* extends the events of its step.
NewLoot(id) ==
    \E i \in DOMAIN events' :
       /\ pc = "entering" => i > Len(events)
       /\ events'[i].text = "treasure" /\ events'[i].n = id

\* C7: awarding an id of the found set changes nothing and gives no event;
\* a treasure's loot event is given only for an id not yet found, which is
\* found from then on, so each id gives at most one; the found set never
\* holds more than the dungeon's treasures.
C7_AwardIdempotent ==
    /\ [](/\ \A id \in player.treasures_found :
                AwardTreasure(player, id) = [player |-> player, events |-> <<>>]
          /\ player.treasures_found \subseteq 1..TreasureCount
          /\ Cardinality(player.treasures_found) <= TreasureCount)
    /\ [][\A id \in 1..TreasureCount :
            /\ (events' # events /\ NewLoot(id)) =>
                  /\ id \notin player.treasures_found
                  /\ id \in player'.treasures_found
            /\ id \in player.treasures_found => id \in player'.treasures_found]_vars

\* Every treasure is found and a room that held one is entered again.
C7_Witness ==
    /\ player.treasures_found = 1..TreasureCount
    /\ pc = Idle /\ HasEvent("empty_room")
    /\ CurrentRoom.treasure_id = 0 /\ Here = <<0, 1, 1>>

C9_FatiguedRunNoOp ==
    [][RunAttempt /\ player.fatigued /\ encounter # NoEncounter =>
          /\ player' = player
          /\ encounter' = encounter
          /\ mode' = mode
          /\ rooms' = rooms
          /\ rngDraws' = 0
          /\ events' = <<Ev("INFO", "fatigued")>>]_vars

\* A fatigued player has just tried to run.
C9_Witness ==
    /\ player.fatigued /\ mode = "ENCOUNTER" /\ encounter # NoEncounter
    /\ events = <<Ev("INFO", "fatigued")>>


(***************************************************************************)
(* EncounterSession (encounter.py): a session started on a player, stepped *)
(* until a result says done. sess holds the session's fields and the       *)
(* flags of the EncounterResult of its last step.                          *)
(***************************************************************************)
\* The monster levels and the hit points of the sessions modelled.
SessionMaxLevel == 2
SessionHp == 4

SessionTokens == {"F", "R", "S", "P", "L", "W", "T", "Z", ""}

Session(level, vitality) ==
    [active |-> TRUE, monster_level |-> level, vitality |-> vitality,
     awaiting_spell |-> FALSE, done |-> FALSE, defeated_monster |-> FALSE,
     relocate |-> FALSE, enter_room |-> FALSE]

\* _reset_player_after_encounter
ResetPlayerAfterEncounter(p) ==
    [p EXCEPT !.fatigued = FALSE, !.temp_armor_bonus = 0]

\* The players a session is started on: a created character with any
\* intelligence, one charge of one spell and SessionHp hit points left.
SessionPlayers ==
    {[CreatePlayer(Creation("HUMAN", 0, 50)).player EXCEPT
         !.iq = iq, !.hp = SessionHp,
         !.spells = [sp \in Spells |-> IF sp = known THEN 1 ELSE 0]] :
        iq \in 1..18, known \in Spells}

\* EncounterSession.start
InitSession ==
    /\ \E p \in SessionPlayers, level \in {1, SessionMaxLevel},
          v \in RandInt(0, 3) :
          /\ player = ResetPlayerAfterEncounter(p)
          /\ sess = Session(level, 3 * level + v)
    /\ rooms = <<>>
    /\ gen = GenOff
    /\ mode = "ENCOUNTER"
    /\ encounter = NoEncounter
    /\ awaiting_spell = FALSE
    /\ shop_state = NoShop
    /\ pc = Idle
    /\ calls = 0
    /\ events = <<>>
    /\ rngDraws = 1
    /\ needs_input = TRUE

\* EncounterSession._monster_attack: [player, done, events, draws].
SessMonsterAttack(p, level) ==
    LET dodge_score == 20 + 5 * (11 - level) + 2 * p.dex
        armor == p.armor_tier + p.temp_armor_bonus
    IN  {[player |-> p, done |-> FALSE,
          events |-> <<Ev("COMBAT", "dodge")>>, draws |-> 1] :
            b \in {x \in RollAtMost(dodge_score) : x}}
        \cup
        {LET damage == Max(d + ((15 + 2 * level) \div 6) - armor, 0)
             hp == p.hp - damage
         IN  [player |-> [p EXCEPT !.hp = hp], done |-> hp <= 0,
              events |-> IF hp <= 0
                         THEN <<Ev("COMBAT", "hits_you"), Ev("INFO", "died")>>
                         ELSE <<Ev("COMBAT", "hits_you")>>,
              draws |-> 2] :
            d \in RandInt(0, level - 1),
            b \in {x \in RollAtMost(dodge_score) : ~x}}

\* EncounterSession._handle_monster_death(events), after the draws n:
\* [player, sess, events, draws].
SessHandleMonsterDeath(p, s, evs, n) ==
    LET cleared == [s EXCEPT !.monster_level = 0, !.vitality = 0,
                             !.done = TRUE, !.defeated_monster = TRUE]
    IN  {[player |-> ResetPlayerAfterEncounter(p), sess |-> cleared,
          events |-> evs \o <<Ev("COMBAT", "expires")>>, draws |-> n + 1]}
        \cup
        {[player |-> IF a.done THEN a.player
                     ELSE ResetPlayerAfterEncounter(a.player),
          sess |-> cleared,
          events |-> evs \o <<Ev("COMBAT", "expires"),
                              Ev("COMBAT", "final_attack")>> \o a.events,
          draws |-> n + 1 + a.draws] :
            a \in SessMonsterAttack(p, s.monster_level)}

\* The end of a round: _monster_attack, after the events evs and the draws n.
SessRetaliation(p, s, evs, n) ==
    {[player |-> a.player, sess |-> [s EXCEPT !.done = a.done],
      events |-> evs \o a.events, draws |-> n + a.draws] :
        a \in SessMonsterAttack(p, s.monster_level)}

\* EncounterSession._fight_round
SessFightRound(p, s) ==
    LET level == s.monster_level
        attack_score == 20 + 5 * (11 - level) + p.dex + 3 * p.weapon_tier
        missed == {x \in RollAtMost(attack_score) : ~x}
        landed == {x \in RollAtMost(attack_score) : x}
        afterHit(d, brk) ==
            LET damage == Max(p.weapon_tier + (p.str_ \div 3) + d - 2, 1)
                s1 == [s EXCEPT !.vitality = s.vitality - damage]
                hit == <<Ev("COMBAT", "you_hit")>>
            IN  IF s1.vitality <= 0
                THEN SessHandleMonsterDeath(p, s1, hit, 2)
                ELSE IF brk /\ p.weapon_tier > 0
                THEN SessRetaliation([p EXCEPT !.weapon_tier = 0,
                                               !.weapon_broken = TRUE],
                                     s1, hit \o <<Ev("INFO", "weapon_breaks")>>, 3)
                ELSE SessRetaliation(p, s1, hit, 3)
    IN  UNION {SessRetaliation(p, s, <<Ev("COMBAT", "evades")>>, 1) :
                  b \in missed}
        \cup UNION {afterHit(c[1], c[2]) :
                  c \in {x \in RandInt(0, 4) \X BOOLEAN : landed # {}}}

\* EncounterSession._run_attempt
SessRunAttempt(p, s) ==
    IF p.fatigued
    THEN {[player |-> p, sess |-> s,
           events |-> <<Ev("INFO", "fatigued")>>, draws |-> 0]}
    ELSE {[player |-> ResetPlayerAfterEncounter(p),
           sess |-> [s EXCEPT !.done = TRUE, !.relocate = TRUE,
                              !.enter_room = TRUE],
           events |-> <<Ev("INFO", "turn_and_flee"),
                        Ev("INFO", "no_longer_following")>>,
           draws |-> 1],
          [player |-> [p EXCEPT !.fatigued = TRUE], sess |-> s,
           events |-> <<Ev("INFO", "escape_in_vain")>>, draws |-> 1]}

\* The rolls of a spell in _cast_spell.
SpellRolls(spell) ==
    CASE spell = "FIREBALL" -> RandInt(1, 5)
      [] spell = "LIGHTNING" -> RandInt(1, 10)
      [] OTHER -> {0}

\* The vitality a spell leaves with the intelligence taken off its roll.
SpellVitalityReduced(spell, roll, iq, vitality) ==
    CASE spell = "FIREBALL" -> vitality - (roll - (iq \div 3))
      [] spell = "LIGHTNING" -> vitality - (roll - (iq \div 2))
      [] spell = "WEAKEN" -> vitality \div 2
      [] OTHER -> vitality

\* The vitality _cast_spell leaves before it tests for the monster's death.
SpellVitality(spell, roll, iq, vitality) ==
    CASE spell = "FIREBALL" -> vitality - (roll + (iq \div 3))
      [] spell = "LIGHTNING" -> vitality - (roll + (iq \div 2))
      [] spell = "WEAKEN" -> vitality \div 2
      [] OTHER -> vitality

\* EncounterSession._cast_spell
SessCastSpell(p, s, spell) ==
    LET resolve(p1, s1, evs, n) ==
            IF s1.vitality <= 0
            THEN SessHandleMonsterDeath(p1, s1, evs, n)
            ELSE SessRetaliation(p1, s1, evs, n)
        hurt(roll) == [s EXCEPT !.vitality = SpellVitality(spell, roll, p.iq, @)]
    IN  CASE spell = "PROTECTION" ->
               resolve([p EXCEPT !.temp_armor_bonus = @ + 3], s,
                       <<Ev("INFO", IF p.armor_tier > 0 THEN "armor_glows"
                                    ELSE "clothes_glow")>>, 0)
          [] spell = "FIREBALL" ->
               UNION {resolve(p, hurt(roll), <<Ev("COMBAT", "fireball")>>, 1) :
                        roll \in SpellRolls(spell)}
          [] spell = "LIGHTNING" ->
               UNION {resolve(p, hurt(roll), <<Ev("COMBAT", "thunderstruck")>>, 1) :
                        roll \in SpellRolls(spell)}
          [] spell = "WEAKEN" ->
               UNION {resolve(p, hurt(roll), <<Ev("COMBAT", "green_mist")>>, 0) :
                        roll \in SpellRolls(spell)}
          [] OTHER ->
               {[player |-> ResetPlayerAfterEncounter(p),
                 sess |-> [s EXCEPT !.monster_level = 0, !.vitality = 0,
                                    !.done = TRUE, !.relocate = TRUE,
                                    !.enter_room = TRUE],
                 events |-> <<Ev("INFO", "transported")>>, draws |-> 0]}

\* spell_map of _handle_spell_choice; "none" where the key is not in it.
SpellMap(raw) ==
    CASE raw = "P" -> "PROTECTION"
      [] raw = "F" -> "FIREBALL"
      [] raw = "L" -> "LIGHTNING"
      [] raw = "W" -> "WEAKEN"
      [] raw = "T" -> "TELEPORT"
      [] OTHER -> "none"

\* A spell choice that asks for no intelligence.
SessHandleSpellChoiceDull(p, s, raw) ==
    LET s0 == [s EXCEPT !.awaiting_spell = FALSE]
        spell == SpellMap(raw)
        same(ev) == {[player |-> p, sess |-> s0, events |-> <<ev>>, draws |-> 0]}
    IN  IF spell = "none"
        THEN same(Ev("ERROR", "choose_pflwt"))
        ELSE IF p.spells[spell] <= 0
        THEN same(Ev("INFO", "know_not_spell"))
        ELSE SessCastSpell([p EXCEPT !.spells[spell] = @ - 1], s0, spell)

\* EncounterSession._handle_spell_choice(raw)
SessHandleSpellChoice(p, s, raw) ==
    LET s0 == [s EXCEPT !.awaiting_spell = FALSE]
        spell == SpellMap(raw)
        same(ev) == {[player |-> p, sess |-> s0, events |-> <<ev>>, draws |-> 0]}
    IN  IF spell = "none"
        THEN same(Ev("ERROR", "choose_pflwt"))
        ELSE IF p.iq < 12
        THEN same(Ev("INFO", "insufficient_intelligence"))
        ELSE IF p.spells[spell] <= 0
        THEN same(Ev("INFO", "know_not_spell"))
        ELSE SessCastSpell([p EXCEPT !.spells[spell] = @ - 1], s0, spell)

SessionOpen == sess.active /\ ~sess.done

\* An outcome of a session's step becomes the next state.
SessApply(o) ==
    /\ player' = o.player
    /\ sess' = o.sess
    /\ events' = o.events
    /\ rngDraws' = o.draws
    /\ UNCHANGED <<rooms, gen, mode, encounter, awaiting_spell, shop_state,
                   pc, calls, needs_input>>

\* step: a spell choice is awaited.
SessionSpellChoice ==
    /\ SessionOpen /\ sess.awaiting_spell
    /\ \E raw \in SessionTokens :
          \E o \in SessHandleSpellChoice(player, sess, raw) : SessApply(o)

\* step: the empty command, or a key that is none of F, R, S.
SessionUnknown ==
    /\ SessionOpen /\ ~sess.awaiting_spell
    /\ \E raw \in SessionTokens \ {"F", "R", "S"} :
          SessApply([player |-> player, sess |-> sess,
                     events |-> <<Ev("ERROR", "dont_understand")>>,
                     draws |-> 0])

\* step: F
SessionFight ==
    /\ SessionOpen /\ ~sess.awaiting_spell
    /\ \E o \in SessFightRound(player, sess) : SessApply(o)

\* step: R
SessionRun ==
    /\ SessionOpen /\ ~sess.awaiting_spell
    /\ \E o \in SessRunAttempt(player, sess) : SessApply(o)

\* step: S
SessionSpellPrompt ==
    /\ SessionOpen /\ ~sess.awaiting_spell
    /\ SessApply([player |-> player,
                  sess |-> [sess EXCEPT !.awaiting_spell = TRUE],
                  events |-> <<Ev("PROMPT", "choose_spell")>>, draws |-> 0])

\* attempt_cancel
SessionCancel ==
    /\ SessionOpen
    /\ IF ~sess.awaiting_spell
       THEN SessApply([player |-> player, sess |-> sess,
                       events |-> <<Ev("INFO", "dont_understand")>>,
                       draws |-> 0])
       ELSE SessApply([player |-> player,
                       sess |-> [sess EXCEPT !.awaiting_spell = FALSE],
                       events |-> <<Ev("INFO", "ready_yourself")>>,
                       draws |-> 0])

NextSession ==
    \/ SessionSpellChoice
    \/ SessionUnknown
    \/ SessionFight
    \/ SessionRun
    \/ SessionSpellPrompt
    \/ SessionCancel

SpecSession == InitSession /\ [][NextSession]_vars

(***************************************************************************)
(* Properties of the session.                                              *)
(***************************************************************************)
\* The step in progress casts the spell announced by the event text.
Casts(text) == events' # events /\ events' # <<>> /\ events'[1].text = text

\* C10: no spell cast increases the monster's vitality: a step that casts a
\* Fireball or a Lightning leaves a vitality at most the one before, one that
\* casts a Weaken leaves floor(vitality / 2); and at every vitality a session
\* reaches, for every IQ in 1..18 and every roll, the vitality each of the
\* three spells leaves is at most the one before.
C10_SpellsNeverIncreaseVitality ==
    /\ [](SessionOpen =>
            \A iq \in 1..18, spell \in {"FIREBALL", "LIGHTNING", "WEAKEN"} :
               \A roll \in SpellRolls(spell) :
                  SpellVitality(spell, roll, iq, sess.vitality) <= sess.vitality)
    /\ [][/\ Casts("fireball") \/ Casts("thunderstruck") =>
                sess'.vitality <= sess.vitality
          /\ Casts("green_mist") =>
                /\ sess'.vitality = sess.vitality \div 2
                /\ sess'.vitality <= sess.vitality]_vars

\* A Fireball has hit a monster that lives on.
C10_Witness ==
    /\ sess.active /\ sess.vitality > 0
    /\ events # <<>> /\ events[1].text = "fireball"

(***************************************************************************)
(* vendor.py: a VendorSession on its own, from its construction to the     *)
(* result that reports it done.                                            *)
(***************************************************************************)
VendorTokens ==
    {"W", "A", "S", "P", "F", "D", "B", "L", "C", "T", "H", "I", "M", "Z", ""}

\* Event.prompt(text, options=...): an option is <<key, disabled>>.
Prompt(text, options) ==
    [kind |-> "PROMPT", text |-> text, n |-> 0, at |-> options]

\* VendorSession.__init__: the phase and the category ("none" is None);
\* done is the done flag of the last VendorResult.
VendorSession(phase, category) ==
    [phase |-> phase, category |-> category, done |-> FALSE]

\* VendorResult of a step on session s: [player, session, events, draws].
VendorResult(p, s, evs, draws, done) ==
    [player |-> p, session |-> [s EXCEPT !.done = done], events |-> evs,
     draws |-> draws]

\* _insufficient_gold_message (the race label is left out of the text)
InsufficientGoldMessage == Ev("INFO", "dont_cheat")

\* _category_prompt
CategoryPrompt(p) ==
    Prompt("he_is_selling",
           <<<<"W", FALSE>>, <<"A", FALSE>>, <<"S", FALSE>>, <<"P", FALSE>>,
             <<"F", p.gold < 10>>>>)

\* _item_prompt
ItemPrompt(p, category) ==
    CASE category = "W" ->
           Prompt("choose_weapon",
                  <<<<"D", p.gold < WEAPON_PRICES(1)>>,
                    <<"S", p.gold < WEAPON_PRICES(2)>>,
                    <<"B", p.gold < WEAPON_PRICES(3)>>>>)
      [] category = "A" ->
           Prompt("choose_armor",
                  <<<<"L", p.gold < ARMOR_PRICES(1)>>,
                    <<"W", p.gold < ARMOR_PRICES(2)>>,
                    <<"C", p.gold < ARMOR_PRICES(3)>>>>)
      [] category = "S" ->
           Prompt("choose_scroll",
                  <<<<"P", p.gold < SPELL_PRICES("PROTECTION")>>,
                    <<"F", p.gold < SPELL_PRICES("FIREBALL")>>,
                    <<"L", p.gold < SPELL_PRICES("LIGHTNING")>>,
                    <<"W", p.gold < SPELL_PRICES("WEAKEN")>>,
                    <<"T", p.gold < SPELL_PRICES("TELEPORT")>>>>)
      [] OTHER ->
           Prompt("choose_potion",
                  <<<<"H", p.gold < POTION_PRICES("HEALING")>>,
                    <<"A", p.gold < POTION_PRICES("ATTRIBUTE")>>>>)

\* _attribute_prompt
AttributePrompt ==
    Prompt("choose_attribute",
           <<<<"S", FALSE>>, <<"D", FALSE>>, <<"I", FALSE>>, <<"M", FALSE>>>>)

\* A weapon handler that sells without looking at the purse.
VendorWeaponsOnCredit(p, s, raw) ==
    LET tier == CASE raw = "D" -> 1 [] raw = "S" -> 2 [] raw = "B" -> 3
                  [] OTHER -> 1
    IN  VendorResult([p EXCEPT !.weapon_tier = tier,
                               !.weapon_name = WEAPON_NAMES(tier),
                               !.weapon_broken = FALSE,
                               !.gold = @ - WEAPON_PRICES(tier)],
                     s, <<Ev("INFO", "fine_weapon")>>, 0, TRUE)

\* VendorSession._handle_shop_weapons(raw)
VendorWeapons(p, s, raw) ==
    LET tier == CASE raw = "D" -> 1 [] raw = "S" -> 2 [] raw = "B" -> 3
                  [] OTHER -> 0
        price == WEAPON_PRICES(tier)
    IN  IF tier = 0
        THEN VendorResult(p, s, <<Ev("ERROR", "choose_dsb"),
                                  ItemPrompt(p, s.category)>>, 0, FALSE)
        ELSE IF p.gold < price
        THEN VendorResult(p, s, <<InsufficientGoldMessage,
                                  ItemPrompt(p, s.category)>>, 0, FALSE)
        ELSE VendorResult([p EXCEPT !.weapon_tier = tier,
                                    !.weapon_name = WEAPON_NAMES(tier),
                                    !.weapon_broken = FALSE,
                                    !.gold = @ - price],
                          s, <<Ev("INFO", "fine_weapon")>>, 0, TRUE)

\* VendorSession._handle_shop_armor(raw)
VendorArmor(p, s, raw) ==
    LET tier == CASE raw = "L" -> 1 [] raw = "W" -> 2 [] raw = "C" -> 3
                  [] OTHER -> 0
        price == ARMOR_PRICES(tier)
    IN  IF tier = 0
        THEN VendorResult(p, s, <<Ev("ERROR", "choose_lwc"),
                                  ItemPrompt(p, s.category)>>, 0, FALSE)
        ELSE IF p.gold < price
        THEN VendorResult(p, s, <<InsufficientGoldMessage,
                                  ItemPrompt(p, s.category)>>, 0, FALSE)
        ELSE VendorResult([p EXCEPT !.armor_tier = tier,
                                    !.armor_name = ARMOR_NAMES(tier),
                                    !.armor_damaged = FALSE,
                                    !.gold = @ - price],
                          s, <<Ev("INFO", "armor_fitted")>>, 0, TRUE)

\* VendorSession._handle_shop_scrolls(raw)
VendorScrolls(p, s, raw) ==
    LET spell == CASE raw = "P" -> "PROTECTION" [] raw = "F" -> "FIREBALL"
                   [] raw = "L" -> "LIGHTNING" [] raw = "W" -> "WEAKEN"
                   [] raw = "T" -> "TELEPORT" [] OTHER -> "none"
        price == SPELL_PRICES(spell)
    IN  IF spell = "none"
        THEN VendorResult(p, s, <<Ev("ERROR", "choose_pflwt"),
                                  ItemPrompt(p, s.category)>>, 0, FALSE)
        ELSE IF p.gold < price
        THEN VendorResult(p, s, <<InsufficientGoldMessage,
                                  ItemPrompt(p, s.category)>>, 0, FALSE)
        ELSE VendorResult([p EXCEPT !.gold = @ - price,
                                    !.spells[spell] = @ + 1],
                          s, <<Ev("INFO", "scroll_is_yours")>>, 0, TRUE)

\* VendorSession._handle_shop_potions(raw)
VendorPotions(p, s, raw) ==
    CASE raw = "H" ->
           IF p.gold < POTION_PRICES("HEALING")
           THEN VendorResult(p, s, <<InsufficientGoldMessage,
                                     ItemPrompt(p, s.category)>>, 0, FALSE)
           ELSE VendorResult([p EXCEPT !.gold = @ - POTION_PRICES("HEALING"),
                                       !.hp = Min(p.mhp, p.hp + 10)],
                             s, <<Ev("INFO", "drink_the_potion"),
                                  Ev("INFO", "healing_results")>>, 0, TRUE)
      [] raw = "A" ->
           IF p.gold < POTION_PRICES("ATTRIBUTE")
           THEN VendorResult(p, s, <<InsufficientGoldMessage,
                                     ItemPrompt(p, s.category)>>, 0, FALSE)
           ELSE VendorResult(p, [s EXCEPT !.phase = "attribute"],
                             <<AttributePrompt>>, 0, FALSE)
      [] OTHER ->
           VendorResult(p, s, <<Ev("ERROR", "choose_h_or_a"),
                                ItemPrompt(p, s.category)>>, 0, FALSE)

\* VendorSession._purchase_flares
PurchaseFlares(p, s) ==
    IF p.gold < 10
    THEN VendorResult(p, s, <<InsufficientGoldMessage, CategoryPrompt(p)>>,
                      0, FALSE)
    ELSE VendorResult([p EXCEPT !.gold = @ - 10, !.flares = @ + 10], s,
                      <<Ev("INFO", "ten_flares")>>, 0, TRUE)

\* VendorSession._handle_shop_category(raw)
VendorCategory(p, s, raw) ==
    CASE raw \in {"W", "A", "S", "P"} ->
           VendorResult(p, [s EXCEPT !.category = raw, !.phase = "item"],
                        <<ItemPrompt(p, raw)>>, 0, FALSE)
      [] raw = "F" -> PurchaseFlares(p, s)
      [] OTHER ->
           VendorResult(p, s, <<Ev("ERROR", "choose_wapsf"),
                                CategoryPrompt(p)>>, 0, FALSE)

\* VendorSession._handle_shop_item(raw)
VendorItem(p, s, raw) ==
    CASE s.category = "W" -> VendorWeapons(p, s, raw)
      [] s.category = "A" -> VendorArmor(p, s, raw)
      [] s.category = "S" -> VendorScrolls(p, s, raw)
      [] s.category = "P" -> VendorPotions(p, s, raw)
      [] OTHER ->
           VendorResult(p, s, <<Ev("ERROR", "choose_wapsf"),
                                CategoryPrompt(p)>>, 0, FALSE)

\* VendorSession._handle_shop_attribute(raw): the results, one per draw.
VendorAttribute(p, s, raw) ==
    LET target == CASE raw = "S" -> "STR" [] raw = "D" -> "DEX"
                    [] raw = "I" -> "IQ" [] raw = "M" -> "MHP"
                    [] OTHER -> "none"
        price == POTION_PRICES("ATTRIBUTE")
    IN  IF target = "none"
        THEN {VendorResult(p, s, <<Ev("ERROR", "choose_sdim"),
                                   AttributePrompt>>, 0, FALSE)}
        ELSE IF p.gold < price
        THEN {VendorResult(p, s, <<InsufficientGoldMessage>>, 0, TRUE)}
        ELSE {VendorResult(
                 ApplyAttributeChange([p EXCEPT !.gold = @ - price],
                                      target, change),
                 s, <<Ev("INFO", "drink_the_potion"),
                      EvN("INFO", "attribute_outcome", change)>>, 1, TRUE) :
                 change \in RandInt(1, 3)}

\* VendorSession.attempt_cancel
VendorAttemptCancel(p, s) ==
    CASE s.phase = "attribute" ->
           VendorResult(p, [s EXCEPT !.phase = "item"],
                        <<ItemPrompt(p, s.category)>>, 0, FALSE)
      [] s.phase = "item" ->
           VendorResult(p, [s EXCEPT !.phase = "category",
                                     !.category = "none"],
                        <<CategoryPrompt(p)>>, 0, FALSE)
      [] OTHER ->
           VendorResult(p, s, <<Ev("INFO", "another_time")>>, 0, TRUE)

\* The purses a customer comes with.
VendorGolds == {0, 10, 30, 50, 100}

\* The customers: a created character with any purse, any equipment tier,
\* worn or whole.
VendorPlayers ==
    {[CreatePlayer(Creation("HUMAN", 0, 50)).player EXCEPT
         !.gold = g,
         !.weapon_tier = wt, !.weapon_name = WEAPON_NAMES(wt),
         !.armor_tier = at, !.armor_name = ARMOR_NAMES(at),
         !.weapon_broken = worn, !.armor_damaged = worn] :
        g \in VendorGolds, wt \in 1..3, at \in 1..3, worn \in BOOLEAN}

\* VendorSession(rng, player) followed by start_events
InitVendor ==
    /\ player \in VendorPlayers
    /\ shop_state = VendorSession("category", "none")
    /\ events = <<CategoryPrompt(player)>>
    /\ rooms = <<>>
    /\ gen = GenOff
    /\ mode = "EXPLORE"
    /\ encounter = NoEncounter
    /\ awaiting_spell = FALSE
    /\ sess = NoSession
    /\ pc = Idle
    /\ calls = 0
    /\ rngDraws = 0
    /\ needs_input = TRUE

VendorOpen == shop_state # NoShop /\ ~shop_state.done

\* A result of the session becomes the next state.
VendorApply(o) ==
    /\ player' = o.player
    /\ shop_state' = o.session
    /\ events' = o.events
    /\ rngDraws' = o.draws
    /\ UNCHANGED <<rooms, gen, mode, encounter, awaiting_spell, sess, pc,
                   calls, needs_input>>

\* step in the category phase
VendorStepCategory ==
    /\ VendorOpen /\ shop_state.phase = "category"
    /\ \E raw \in VendorTokens :
          VendorApply(VendorCategory(player, shop_state, raw))

\* step in the item phase
VendorStepItem ==
    /\ VendorOpen /\ shop_state.phase = "item"
    /\ \E raw \in VendorTokens :
          VendorApply(VendorItem(player, shop_state, raw))

\* step in the attribute phase
VendorStepAttribute ==
    /\ VendorOpen /\ shop_state.phase = "attribute"
    /\ \E raw \in VendorTokens :
          \E o \in VendorAttribute(player, shop_state, raw) : VendorApply(o)

\* attempt_cancel
VendorCancel ==
    /\ VendorOpen
    /\ VendorApply(VendorAttemptCancel(player, shop_state))

NextVendor ==
    \/ VendorStepCategory
    \/ VendorStepItem
    \/ VendorStepAttribute
    \/ VendorCancel

SpecVendor == InitVendor /\ [][NextVendor]_vars

(***************************************************************************)
(* Properties of the vendor.                                               *)
(***************************************************************************)
\* The price the item prompt of a category quotes for option raw, -1 if the
\* category has no such option.
QuotedPrice(category, raw) ==
    CASE category = "W" /\ raw = "D" -> 10
      [] category = "W" /\ raw = "S" -> 20
      [] category = "W" /\ raw = "B" -> 30
      [] category = "A" /\ raw = "L" -> 10
      [] category = "A" /\ raw = "W" -> 20
      [] category = "A" /\ raw = "C" -> 30
      [] category = "S" /\ raw = "P" -> 50
      [] category = "S" /\ raw = "F" -> 30
      [] category = "S" /\ raw = "L" -> 50
      [] category = "S" /\ raw = "W" -> 75
      [] category = "S" /\ raw = "T" -> 80
      [] category = "P" /\ raw = "H" -> 50
      [] category = "P" /\ raw = "A" -> 100
      [] OTHER -> -1

\* The same for the digit menus of the Game's own shop.
QuotedDigitPrice(category, raw) ==
    CASE category \in {"1", "2"} /\ raw = "1" -> 10
      [] category \in {"1", "2"} /\ raw = "2" -> 20
      [] category \in {"1", "2"} /\ raw = "3" -> 30
      [] category = "3" /\ raw = "1" -> 50
      [] category = "3" /\ raw = "2" -> 30
      [] category = "3" /\ raw = "3" -> 50
      [] category = "3" /\ raw = "4" -> 75
      [] category = "3" /\ raw = "5" -> 80
      [] category = "4" /\ raw = "1" -> 50
      [] category = "4" /\ raw = "2" -> 100
      [] OTHER -> -1

\* The digit handler of the Game's shop for a category.
DigitItem(p, shop, raw) ==
    CASE shop.category = "1" -> ShopWeapons(p, shop, raw)
      [] shop.category = "2" -> ShopArmor(p, shop, raw)
      [] shop.category = "3" -> ShopScrolls(p, shop, raw)
      [] OTHER -> ShopPotions(p, shop, raw)

\* C11: at the item phase an option the category does not have, or one whose
\* price exceeds the player's gold, charges nothing: the player (gold, weapon
\* and armor tier, spell charges, HP) and the session (phase item, same
\* category, not done) are as before and no random number is drawn. This
\* holds of every token at every item-phase state the session reaches, of
\* every step that answers with the error or the cheat notice, and of the
\* Game's digit handlers on the same players.
C11_RejectedItemChargesNothing ==
    /\ [](VendorOpen /\ shop_state.phase = "item" =>
            \A raw \in VendorTokens :
               LET price == QuotedPrice(shop_state.category, raw)
                   o == VendorItem(player, shop_state, raw)
               IN  price = -1 \/ player.gold < price =>
                      /\ o.player = player
                      /\ o.session = shop_state
                      /\ o.draws = 0)
    /\ [][VendorStepItem /\ (events'[1].kind = "ERROR"
                                \/ events'[1] = InsufficientGoldMessage) =>
             /\ player' = player
             /\ shop_state' = shop_state
             /\ shop_state'.phase = "item"
             /\ rngDraws' = 0]_vars
    /\ [](\A category \in {"1", "2", "3", "4"}, raw \in {"1", "2", "3", "4", "5"} :
            LET price == QuotedDigitPrice(category, raw)
                shop == [phase |-> "item", category |-> category]
                o == DigitItem(player, shop, raw)
            IN  price = -1 \/ player.gold < price =>
                   /\ o.player = player
                   /\ o.shop_state = shop)

\* A customer with an empty purse has asked for a weapon and been refused.
C11_Witness ==
    /\ shop_state.phase = "item" /\ shop_state.category = "W"
    /\ ~shop_state.done
    /\ events[1] = InsufficientGoldMessage
    /\ player.gold < 10

(***************************************************************************)
(* Further properties of the game.                                         *)
(***************************************************************************)
\* A call of step returns in the step in progress.
StepReturns == calls' = calls + 1

\* C12: GameOver and Victory are absorbing: a call of step made in either
\* mode, whatever the command, leaves the dungeon, the player, the encounter,
\* the shop and the mode as they are, draws no random number, returns no
\* events and reports that no further input is needed.
C12_TerminalAbsorbing ==
    [][Terminal /\ StepReturns =>
          /\ rooms' = rooms
          /\ player' = player
          /\ encounter' = encounter
          /\ awaiting_spell' = awaiting_spell
          /\ shop_state' = shop_state
          /\ mode' = mode
          /\ rngDraws' = 0
          /\ events' = <<>>
          /\ needs_input' = FALSE]_vars

\* C13: a token that is no command of the mode (no explore letter while
\* exploring; none of F, R, S, or nothing at all, while fighting) is answered
\* with the notice alone and changes nothing: the player (so the monster has
\* not struck), the dungeon, the mode, the encounter, the spell prompt, the
\* shop are as before and no random number is drawn.
C13_UnknownTokenChangesNothing ==
    [][StepUnknown \/ (StepEmpty /\ (Exploring \/ Fighting)) =>
          /\ events' = <<Ev("ERROR", "dont_understand")>>
          /\ player' = player
          /\ rooms' = rooms
          /\ mode' = mode
          /\ encounter' = encounter
          /\ awaiting_spell' = awaiting_spell
          /\ shop_state' = shop_state
          /\ rngDraws' = 0]_vars

\* An unknown key has been rejected in front of a living monster.
C13_Witness ==
    /\ mode = "ENCOUNTER" /\ encounter.vitality > 0
    /\ events = <<Ev("ERROR", "dont_understand")>>
    /\ player.hp > 0

\* C14: the mode becomes VICTORY only by an exit attempt made in the Exit
\* room with every treasure found (TreasureCount stands for the 10 of the
\* source); an exit attempt in the Exit room with fewer ends in GAME_OVER;
\* an exit attempt anywhere else answers with a notice and changes nothing.
C14_VictoryOnlyByExit ==
    /\ [][mode' = "VICTORY" /\ mode # "VICTORY" =>
             /\ AttemptExit
             /\ CurrentRoom.feature = "EXIT"
             /\ Cardinality(player.treasures_found) = TreasureCount
             /\ player.treasures_found = 1..TreasureCount]_vars
    /\ [][AttemptExit /\ CurrentRoom.feature = "EXIT" =>
             /\ Cardinality(player.treasures_found) < TreasureCount =>
                   mode' = "GAME_OVER"
             /\ Cardinality(player.treasures_found) = TreasureCount =>
                   mode' = "VICTORY"
             /\ player' = player /\ rooms' = rooms]_vars
    /\ [][AttemptExit /\ CurrentRoom.feature # "EXIT" =>
             /\ events' = <<Ev("INFO", "no_exit")>>
             /\ mode' = mode /\ player' = player /\ rooms' = rooms
             /\ encounter' = encounter /\ shop_state' = shop_state
             /\ awaiting_spell' = awaiting_spell /\ rngDraws' = 0]_vars

\* The player has left through the exit with every treasure.
C14_Witness ==
    /\ mode = "VICTORY"
    /\ events = <<Ev("INFO", "victor")>>
    /\ CurrentRoom.feature = "EXIT"

(***************************************************************************)
(* Room entry on its own: a game in a dungeon with two warps, where the    *)
(* player only walks.                                                      *)
(***************************************************************************)
InitWarps ==
    /\ rooms = LayoutWarps
    /\ ValidateDungeon(rooms, SIZE, SIZE, SIZE, TreasureCount) = {}
    /\ player = CreatePlayer(Creation("HUMAN", 0, 50)).player
    /\ gen = GenOff
    /\ mode = "EXPLORE"
    /\ encounter = NoEncounter
    /\ awaiting_spell = FALSE
    /\ shop_state = NoShop
    /\ pc = "new"
    /\ calls = 0
    /\ events = <<>>
    /\ rngDraws = 0
    /\ needs_input = TRUE
    /\ sess = NoSession

NextWarps ==
    \/ StartEvents
    \/ EnterRoom
    \/ Move

SpecWarps == InitWarps /\ [][NextWarps]_vars

\* C15: every step runs to completion: the chain of room entries a warp
\* starts ends after at most as many re-entries as the dungeon has rooms,
\* whatever destinations are drawn.
C15_WarpChainBounded == EnterDepth <= SIZE * SIZE * SIZE

\* The rooms that warp whoever enters them.
WarpRooms ==
    {q \in GameGrid : rooms[q].feature = "WARP" /\ rooms[q].monster_level = 0}

\* C16: entering a monster-free Warp room relocates the player. Every entry
\* of such a room moves the player to another (row, column) and enters the
\* destination; a Warp room stays one; and when a room entry that went
\* through a warp finishes, the player stands in none of the Warp rooms (so
\* not in the one entered), in a room that is seen and resolved: its monster
\* met, or else its treasure taken and its flares or thief used up.
C16_WarpRelocates ==
    /\ [](pc = Idle /\ EnterDepth > 0 =>
            LET r == rooms[Here]
            IN  /\ Here \notin WarpRooms
                /\ r.seen
                /\ r.monster_level > 0 =>
                      /\ mode = "ENCOUNTER"
                      /\ encounter.monster_level = r.monster_level
                /\ r.monster_level = 0 =>
                      /\ r.treasure_id = 0
                      /\ r.feature \notin {"FLARES", "THIEF", "WARP"}
                      /\ mode = "EXPLORE")
    /\ [][WarpRooms' = WarpRooms]_vars
    /\ [][EnterRoom /\ Here \in WarpRooms =>
             /\ <<player'.y, player'.x>> # <<player.y, player.x>>
             /\ rooms'[Here].seen
             /\ events' = events \o <<Ev("INFO", "warp")>>
             /\ pc' = "entering"]_vars

\* A room entry that went through two warps has finished.
C16_Witness ==
    /\ pc = Idle /\ EnterDepth >= 2
    /\ Here \notin WarpRooms /\ rooms[Here].seen

\* C17: entering a room with a live monster starts an encounter with it and
\* leaves the room's treasure and feature alone: the found set, the room's
\* treasure_id and feature and the player's position are as before and the
\* entry narrates only the monster. While a room's monster_level is above 0
\* its treasure is not in the found set, and it joins the found set only in
\* the step that defeats the monster of the room the player stands in.
C17_MonsterOverridesRoom ==
    /\ [][EnterRoom /\ CurrentRoom.monster_level > 0 =>
             /\ mode' = "ENCOUNTER"
             /\ encounter'.monster_level = CurrentRoom.monster_level
             /\ encounter'.vitality > 0
             /\ Here' = Here
             /\ player'.treasures_found = player.treasures_found
             /\ player'.gold = player.gold /\ player'.flares = player.flares
             /\ rooms' = [rooms EXCEPT ![Here].seen = TRUE]
             /\ events' = events \o <<Ev("COMBAT", "facing"),
                                      Ev("INFO", "encounter_mode")>>
             /\ pc' = Idle]_vars
    /\ [](\A q \in GameGrid :
            rooms[q].monster_level > 0 /\ rooms[q].treasure_id # 0 =>
               rooms[q].treasure_id \notin player.treasures_found)
    /\ [][\A q \in GameGrid :
             /\ rooms[q].monster_level > 0 /\ rooms[q].treasure_id # 0
             /\ rooms[q].treasure_id \in player'.treasures_found
             => /\ q = Here /\ mode = "ENCOUNTER"
                /\ HasEvent("expires")'
                /\ rooms'[q].monster_level = 0
                /\ rooms'[q].treasure_id = 0]_vars

\* The player faces a monster that guards a treasure not yet found.
C17_Witness ==
    /\ mode = "ENCOUNTER" /\ HasEvent("facing")
    /\ CurrentRoom.monster_level > 0 /\ CurrentRoom.treasure_id # 0
    /\ CurrentRoom.treasure_id \notin player.treasures_found

\* The R step in progress got away from the monster.
RunSucceeds == RunAttempt /\ events' = <<Ev("INFO", "slip_away")>>

\* C18: a successful Run ends the encounter, clears the fatigued flag and
\* the temporary armor bonus and moves the player to a room of the same
\* floor with another (row, column), which is entered next; the monster
\* gets no attack (HP unchanged, no other event).
C18_SuccessfulRun ==
    [][RunSucceeds =>
          /\ encounter' = NoEncounter
          /\ mode' = "EXPLORE"
          /\ ~player'.fatigued
          /\ player'.temp_armor_bonus = 0
          /\ player'.z = player.z
          /\ <<player'.y, player'.x>> # <<player.y, player.x>>
          /\ pc' = "entering"
          /\ player'.hp = player.hp
          /\ rooms' = rooms]_vars

\* The R step in progress failed to get away.
RunFails == RunAttempt /\ events' = <<Ev("INFO", "escape_in_vain")>>

\* C19: a failed Run by a player who is not fatigued sets fatigued and has no
\* other effect: the rest of the player (position, HP, spell charges), the
\* encounter with its vitality, the mode and the dungeon are as before, one
\* random number is drawn and the monster does not strike back.
C19_FailedRunOnlyFatigues ==
    [][RunFails =>
          /\ ~player.fatigued
          /\ player' = [player EXCEPT !.fatigued = TRUE]
          /\ encounter' = encounter
          /\ encounter'.vitality > 0
          /\ mode' = "ENCOUNTER"
          /\ rooms' = rooms
          /\ awaiting_spell' = awaiting_spell
          /\ rngDraws' = 1
          /\ pc' = Idle]_vars

\* A Run has just failed.
C19_Witness ==
    /\ events = <<Ev("INFO", "escape_in_vain")>>
    /\ player.fatigued /\ mode = "ENCOUNTER" /\ encounter.vitality > 0

\* C20: a vendor session exists only if B opened it in a Vendor room:
\* entering a room opens none, B in a room without the Vendor feature gives
\* the notice and opens none, B in a Vendor room opens one at the category
\* phase that offers W, A, S, P, F; so whenever a session is active the
\* player's room has the Vendor feature.
C20_VendorOnlyByB ==
    /\ [](shop_state # NoShop => CurrentRoom.feature = "VENDOR")
    /\ [][EnterRoom => shop_state' = NoShop /\ shop_state = NoShop]_vars
    /\ [][OpenVendor /\ CurrentRoom.feature # "VENDOR" =>
             /\ shop_state' = NoShop
             /\ events' = <<Ev("INFO", "no_vendor")>>]_vars
    /\ [][OpenVendor /\ CurrentRoom.feature = "VENDOR" =>
             /\ shop_state'.phase = "category"
             /\ events'[1].kind = "PROMPT"
             /\ events'[1].at = <<"W", "A", "S", "P", "F">>]_vars

\* The rooms next to the player's on its floor, the grid's edges cutting
\* the square of eight.
FlareNeighbours ==
    {q \in GameGrid :
        /\ q[1] = player.z
        /\ \E dy \in {-1, 0, 1}, dx \in {-1, 0, 1} :
              /\ ~(dy = 0 /\ dx = 0)
              /\ q[2] = player.y + dy /\ q[3] = player.x + dx}

DerivedMode ==
    IF Terminal THEN mode
    ELSE IF encounter # NoEncounter THEN "ENCOUNTER"
    ELSE IF shop_state # NoShop THEN "VENDOR"
    ELSE "EXPLORE"

\* C22 as stated: never an encounter and a shop at once, and the mode is
\* GameOver or Victory if the game has ended, otherwise Encounter exactly
\* when an encounter is active, otherwise Vendor if a shop is open,
\* otherwise Explore.
C22_ModeDerived ==
    /\ ~(encounter # NoEncounter /\ shop_state # NoShop)
    /\ mode = DerivedMode

\* C22, amended: never an encounter and a shop at once; the mode is one of
\* the four of Mode; unless the game has ended it is ENCOUNTER exactly
\* when an encounter is active and EXPLORE otherwise, also while a shop is
\* open, which it is only in EXPLORE with no spell choice pending.
C22_ModeDerivedShopInExplore ==
    /\ ~(encounter # NoEncounter /\ shop_state # NoShop)
    /\ mode \in {"EXPLORE", "ENCOUNTER", "GAME_OVER", "VICTORY"}
    /\ ~Terminal =>
          mode = IF encounter # NoEncounter THEN "ENCOUNTER" ELSE "EXPLORE"
    /\ shop_state # NoShop => mode = "EXPLORE" /\ ~awaiting_spell
    /\ awaiting_spell => encounter # NoEncounter

\* A shop is open, and the mode says Explore.
C22_Witness ==
    /\ shop_state # NoShop /\ shop_state.phase = "item"
    /\ mode = "EXPLORE" /\ encounter = NoEncounter

Position(p) == <<p.z, p.y, p.x>>

Distance(a, b) == IF a >= b THEN a - b ELSE b - a

\* C23: the player's floor, row and column always lie in the grid, whatever
\* moved the player; a move either is refused by a wall, with the player
\* and the rooms unchanged and no room entered, or takes the player to the
\* adjacent room of the same floor, inside the grid, and enters it.
C23_PositionInGrid ==
    /\ [](Position(player) \in GameGrid)
    /\ [][Move /\ pc' = Idle =>
             /\ player' = player /\ rooms' = rooms /\ rngDraws' = 0
             /\ events' = <<Ev("INFO", "wall")>>
             /\ \E d \in {<<-1, 0>>, <<1, 0>>, <<0, -1>>, <<0, 1>>} :
                   <<player.z, player.y + d[1], player.x + d[2]>> \notin GameGrid]_vars
    /\ [][Move /\ pc' # Idle =>
             /\ pc' = "entering"
             /\ Position(player') \in GameGrid
             /\ player'.z = player.z
             /\ Distance(player'.y, player.y) + Distance(player'.x, player.x) = 1
             /\ player' = [player EXCEPT !.y = player'.y, !.x = player'.x]]_vars

\* A wall has just refused a move.
C23_Witness ==
    /\ pc = Idle /\ events = <<Ev("INFO", "wall")>>
    /\ Position(player) \in GameGrid

(***************************************************************************)
(* Character creation on its own: Player.create (model.py) and             *)
(* create_player (engine.py) applied to a request, gen holding the request *)
(* and the draws of its call, player the character returned if any.        *)
(***************************************************************************)
\* Player.create: the checks in the order of the code, the record of cls(...).
PlayerCreate(in) ==
    LET base == RollBaseStats(in.race, in.rn, in.rd, in.ra, in.r2)
        cost == WEAPON_PRICES(in.weapon_tier) + ARMOR_PRICES(in.armor_tier)
                    + in.flare_count
    IN  IF Min(in.str_add, Min(in.dex_add, in.iq_add)) < 0
        THEN [ok |-> FALSE]
        ELSE IF in.str_add + in.dex_add + in.iq_add # 5
        THEN [ok |-> FALSE]
        ELSE IF in.weapon_tier \notin {1, 2, 3}
        THEN [ok |-> FALSE]
        ELSE IF in.armor_tier \notin {1, 2, 3}
        THEN [ok |-> FALSE]
        ELSE IF in.flare_count < 0
        THEN [ok |-> FALSE]
        ELSE IF cost > in.gold
        THEN [ok |-> FALSE]
        ELSE [ok |-> TRUE,
              player |->
                [z |-> 0, y |-> SIZE \div 2, x |-> SIZE \div 2,
                 str_ |-> Min(18, base[1] + in.str_add),
                 dex |-> Min(18, base[2] + in.dex_add),
                 iq |-> Min(18, base[3] + in.iq_add),
                 hp |-> base[4], mhp |-> base[4],
                 gold |-> in.gold - cost,
                 flares |-> in.flare_count,
                 treasures_found |-> {},
                 weapon_tier |-> in.weapon_tier,
                 armor_tier |-> in.armor_tier,
                 weapon_name |-> WEAPON_NAMES(in.weapon_tier),
                 weapon_broken |-> FALSE,
                 armor_name |-> ARMOR_NAMES(in.armor_tier),
                 armor_damaged |-> FALSE,
                 spells |-> [sp \in Spells |-> 0],
                 fatigued |-> FALSE,
                 temp_armor_bonus |-> 0]]

\* The requests tried: allocations below, at and above the five points,
\* tiers around 1..3, flare counts around what the gold can pay, the ends
\* of the rolls.
CreationAdds == {-1, 0, 1, 2, 5, 6}
CreationTiers == {0, 1, 3, 4}
CreationFlares == {-1, 0, 40, 41}
CreationRequests ==
    {[race |-> race, str_add |-> s, dex_add |-> d, iq_add |-> i,
      weapon_tier |-> w, armor_tier |-> a, flare_count |-> f,
      rn |-> roll, rd |-> roll, ra |-> roll, r2 |-> 0, gold |-> g] :
        race \in {"DWARF", "ELF"}, s \in CreationAdds, d \in CreationAdds,
        i \in CreationAdds, w \in CreationTiers, a \in CreationTiers,
        f \in CreationFlares, roll \in {0, 4}, g \in {50, 60}}

InitCreate ==
    /\ gen \in CreationRequests
    /\ player = NoPlayer
    /\ pc = "request"
    /\ events = <<>>
    /\ rooms = <<>>
    /\ mode = "EXPLORE"
    /\ encounter = NoEncounter
    /\ awaiting_spell = FALSE
    /\ shop_state = NoShop
    /\ sess = NoSession
    /\ calls = 0
    /\ rngDraws = 0
    /\ needs_input = TRUE

\* The call returns a character or raises ValueError.
Created(o) ==
    /\ pc = "request"
    /\ IF o.ok
       THEN player' = o.player /\ pc' = "created" /\ events' = <<>>
       ELSE player' = player /\ pc' = "refused"
            /\ events' = <<Ev("ERROR", "ValueError")>>
    /\ calls' = calls + 1
    /\ rngDraws' = IF o.ok THEN 5 ELSE rngDraws
    /\ UNCHANGED <<rooms, gen, mode, encounter, awaiting_spell, shop_state,
                   needs_input, sess>>

CallCreatePlayer == Created(CreatePlayer(gen))

CallPlayerCreate == Created(PlayerCreate(gen))

NextCreate == CallCreatePlayer \/ CallPlayerCreate

SpecCreate == InitCreate /\ [][NextCreate]_vars

\* What the claim asks of a request.
CreationValid(in) ==
    /\ in.str_add >= 0 /\ in.dex_add >= 0 /\ in.iq_add >= 0
    /\ in.str_add + in.dex_add + in.iq_add = 5
    /\ in.weapon_tier \in 1..3 /\ in.armor_tier \in 1..3
    /\ in.flare_count >= 0
    /\ WEAPON_PRICES(in.weapon_tier) + ARMOR_PRICES(in.armor_tier)
          + in.flare_count <= in.gold

\* C24: a creation whose allocations are non-negative and total 5, whose
\* tiers lie in 1..3 and whose flares and equipment the rolled gold pays
\* for returns a player on floor 0 in the middle room with gold = rolled
\* gold - (weapon price + armor price + flare count) >= 0, the attributes
\* the rolls plus the allocations capped at 18; any other request is
\* refused with an error and no player.
C24_CreationChecked ==
    pc \in {"created", "refused"} =>
       IF CreationValid(gen)
       THEN /\ pc = "created"
            /\ Position(player) = <<0, SIZE \div 2, SIZE \div 2>>
            /\ player.gold = gen.gold - (WEAPON_PRICES(gen.weapon_tier)
                                + ARMOR_PRICES(gen.armor_tier) + gen.flare_count)
            /\ player.gold >= 0
            /\ player.flares = gen.flare_count
            /\ player.weapon_tier = gen.weapon_tier
            /\ player.armor_tier = gen.armor_tier
            /\ LET base == RollBaseStats(gen.race, gen.rn, gen.rd, gen.ra, gen.r2)
               IN  /\ player.str_ = Min(18, base[1] + gen.str_add)
                   /\ player.dex = Min(18, base[2] + gen.dex_add)
                   /\ player.iq = Min(18, base[3] + gen.iq_add)
                   /\ player.hp = base[4] /\ player.mhp = base[4]
            /\ player.str_ <= 18 /\ player.dex <= 18 /\ player.iq <= 18
       ELSE /\ pc = "refused"
            /\ player = NoPlayer
            /\ events = <<Ev("ERROR", "ValueError")>>

\* A character whose purchases took the last coin and whose strength met
\* the cap.
C24_Witness ==
    /\ pc = "created" /\ player.gold = 0 /\ player.flares = 40
    /\ player.str_ = 18 /\ gen.str_add = 5 /\ gen.race = "DWARF"

Above(p) == <<p[1] + 1, p[2], p[3]>>
Below(p) == <<p[1] - 1, p[2], p[3]>>

\* C25: U is refused, the position unchanged and no room entered, unless
\* the room is a STAIRS_UP room, and D unless it is a STAIRS_DOWN room;
\* an accepted U or D changes the floor by exactly one and nothing else of
\* the player, and enters the paired stair room of that floor, where the
\* entry leaves the player in place and exploring; the rooms of a stair
\* pair stay paired, so the opposite command there is accepted and leads
\* back to the room the player came from.
C25_StairsPaired ==
    /\ [][StairsUp /\ CurrentRoom.feature # "STAIRS_UP" =>
             /\ player' = player /\ rooms' = rooms /\ pc' = Idle
             /\ events' = <<Ev("INFO", "no_stairs_up")>>]_vars
    /\ [][StairsDown /\ CurrentRoom.feature # "STAIRS_DOWN" =>
             /\ player' = player /\ rooms' = rooms /\ pc' = Idle
             /\ events' = <<Ev("INFO", "no_stairs_down")>>]_vars
    /\ [][StairsUp /\ CurrentRoom.feature = "STAIRS_UP" =>
             /\ player' = [player EXCEPT !.z = player.z + 1]
             /\ Position(player') = Above(Position(player))
             /\ Position(player') \in GameGrid
             /\ rooms' = rooms /\ pc' = "entering"
             /\ rooms[Position(player')].feature = "STAIRS_DOWN"
             /\ Below(Position(player')) = Position(player)]_vars
    /\ [][StairsDown /\ CurrentRoom.feature = "STAIRS_DOWN" =>
             /\ player' = [player EXCEPT !.z = player.z - 1]
             /\ Position(player') = Below(Position(player))
             /\ Position(player') \in GameGrid
             /\ rooms' = rooms /\ pc' = "entering"
             /\ rooms[Position(player')].feature = "STAIRS_UP"
             /\ Above(Position(player')) = Position(player)]_vars
    /\ [][EnterRoom /\ CurrentRoom.feature \in {"STAIRS_UP", "STAIRS_DOWN"} =>
             /\ player' = player /\ mode' = mode /\ pc' = Idle
             /\ encounter' = encounter /\ shop_state' = shop_state
             /\ \A q \in GameGrid : rooms'[q].feature = rooms[q].feature]_vars
    /\ [](\A q \in GameGrid :
             /\ rooms[q].feature = "STAIRS_UP" =>
                   Above(q) \in GameGrid /\ rooms[Above(q)].feature = "STAIRS_DOWN"
             /\ rooms[q].feature = "STAIRS_DOWN" =>
                   Below(q) \in GameGrid /\ rooms[Below(q)].feature = "STAIRS_UP")

\* The player went up, came down again and stands where the stairs begin.
C25_Witness ==
    /\ pc = Idle /\ mode = "EXPLORE" /\ calls >= 4
    /\ CurrentRoom.feature = "STAIRS_UP"
    /\ rooms[Above(Position(player))].seen

\* C26 as stated: a successful weapon or armor purchase leaves the tier at
\* max(current tier, purchased tier) with the name of that tier, clears
\* the broken or damaged flag, and takes exactly the price of the
\* purchased tier.
C26_PurchaseNeverLowers ==
    /\ [][VendorStepItem /\ events' = <<Ev("INFO", "fine_weapon")>> =>
             \E tier \in 1..3 :
                /\ player' = [player EXCEPT
                      !.weapon_tier = Max(player.weapon_tier, tier),
                      !.weapon_name = WEAPON_NAMES(Max(player.weapon_tier, tier)),
                      !.weapon_broken = FALSE,
                      !.gold = player.gold - WEAPON_PRICES(tier)]]_vars
    /\ [][VendorStepItem /\ events' = <<Ev("INFO", "armor_fitted")>> =>
             \E tier \in 1..3 :
                /\ player' = [player EXCEPT
                      !.armor_tier = Max(player.armor_tier, tier),
                      !.armor_name = ARMOR_NAMES(Max(player.armor_tier, tier)),
                      !.armor_damaged = FALSE,
                      !.gold = player.gold - ARMOR_PRICES(tier)]]_vars

\* The first event of a cast of each spell.
CastTexts(sp) ==
    CASE sp = "PROTECTION" -> {"armor_glows", "clothes_glow"}
      [] sp = "FIREBALL" -> {"fireball"}
      [] sp = "LIGHTNING" -> {"thunderstruck"}
      [] sp = "WEAKEN" -> {"green_mist"}
      [] OTHER -> {"transported"}

AnyCastText == UNION {CastTexts(sp) : sp \in Spells}

\* The answer of a spell choice that casts nothing.
CastRejected ==
    \E text \in {"choose_pflwt", "insufficient_intelligence", "know_not_spell"} :
       /\ events'[1].text = text /\ Len(events') = 1

\* C27: a spell choice casts only with IQ >= 12 and a charge of the spell:
\* a cast spends exactly one charge of the spell it casts and of no other;
\* a choice with IQ below 12, or one that spends nothing, is rejected with
\* the player (charges and HP), the monster's vitality and level unchanged,
\* no draw and no monster attack; no charge count ever goes below 0.
C27_CastNeedsChargeAndWit ==
    /\ [][SessionSpellChoice /\ events'[1].text \in AnyCastText =>
             /\ player.iq >= 12
             /\ \E sp \in Spells :
                   /\ events'[1].text \in CastTexts(sp)
                   /\ player.spells[sp] >= 1
                   /\ player'.spells = [player.spells EXCEPT ![sp] = @ - 1]]_vars
    /\ [][SessionSpellChoice /\ events'[1].text \notin AnyCastText =>
             /\ CastRejected
             /\ player' = player
             /\ sess' = [sess EXCEPT !.awaiting_spell = FALSE]
             /\ rngDraws' = 0]_vars
    /\ [][SessionSpellChoice /\ player.iq < 12 => CastRejected]_vars
    /\ [][SessionSpellChoice /\ (\A sp \in Spells : player.spells[sp] = 0) =>
             CastRejected]_vars
    /\ [][player'.spells # player.spells =>
             SessionSpellChoice /\ events'[1].text \in AnyCastText]_vars
    /\ [](\A sp \in Spells : player.spells[sp] >= 0)

\* A Fireball was refused for want of intelligence, the charge still there.
C27_Witness ==
    /\ events = <<Ev("INFO", "insufficient_intelligence")>>
    /\ player.iq = 11 /\ player.spells["FIREBALL"] = 1
    /\ ~sess.awaiting_spell /\ ~sess.done

\* C28 as stated: a Teleport that is cast ends the encounter and relocates
\* the player to a different room of the floor, with no monster death and
\* no monster attack: HP, gold and the treasures found are unchanged, the
\* rooms keep their monsters and treasures, fatigue and the temporary
\* armor bonus are cleared.
C28_TeleportEndsEncounter ==
    [][SpellChoice /\ events'[1].text = "transported" =>
          /\ encounter' = NoEncounter /\ mode' = "EXPLORE"
          /\ player'.hp = player.hp /\ player'.gold = player.gold
          /\ player'.treasures_found = player.treasures_found
          /\ rooms' = rooms
          /\ Len(events') = 1
          /\ player'.z = player.z
          /\ Position(player') # Position(player)
          /\ ~player'.fatigued /\ player'.temp_armor_bonus = 0]_vars

\* C29 as stated: S moves the session from fighting to awaiting_spell with
\* nothing else changed and no draw; in awaiting_spell a key that is no
\* spell letter casts nothing, spends no charge, gives the monster no
\* attack and leaves the session awaiting a spell choice; a cancel in
\* awaiting_spell returns to fighting with the player and the monster
\* unchanged and no draw.
C29_SpellChoicePhase ==
    /\ [][SessionSpellPrompt =>
             /\ ~sess.awaiting_spell
             /\ sess' = [sess EXCEPT !.awaiting_spell = TRUE]
             /\ player' = player /\ rngDraws' = 0
             /\ events' = <<Ev("PROMPT", "choose_spell")>>]_vars
    /\ [][SessionSpellChoice /\ events'[1].text = "choose_pflwt" =>
             /\ player' = player /\ rngDraws' = 0
             /\ sess'.vitality = sess.vitality
             /\ sess'.monster_level = sess.monster_level
             /\ ~sess'.done
             /\ events'[1] = Ev("ERROR", "choose_pflwt")
             /\ sess'.awaiting_spell]_vars
    /\ [][SessionCancel /\ sess.awaiting_spell =>
             /\ sess' = [sess EXCEPT !.awaiting_spell = FALSE]
             /\ player' = player /\ rngDraws' = 0
             /\ events' = <<Ev("INFO", "ready_yourself")>>]_vars
    /\ [][sess'.awaiting_spell /\ ~sess.awaiting_spell => SessionSpellPrompt]_vars

\* The step in progress answers the cancel and leave token of the shop.
ShopCancelled == InShop /\ events' = <<Ev("INFO", "another_time")>>

\* C30 as stated: the cancel token steps back exactly one phase, from
\* attribute to item and from item to category with the category cleared,
\* and ends the session from the category phase; it changes nothing of the
\* player and draws nothing.
C30_CancelStepsBack ==
    /\ [][ShopCategory /\ ShopCancelled =>
             shop_state' = NoShop /\ player' = player /\ rngDraws' = 0]_vars
    /\ [][ShopItem /\ ShopCancelled =>
             /\ shop_state' = [phase |-> "category", category |-> "none"]
             /\ player' = player /\ rngDraws' = 0]_vars
    /\ [][ShopAttribute /\ ShopCancelled =>
             /\ shop_state' = [shop_state EXCEPT !.phase = "item"]
             /\ player' = player /\ rngDraws' = 0]_vars

(***************************************************************************)
(* Properties of the features, the chest and the potions.                  *)
(***************************************************************************)
\* The step in progress refuses a feature command for want of the feature.
FeatureRefused(text) ==
    /\ events' = <<Ev("INFO", text)>>
    /\ rooms' = rooms /\ player' = player /\ rngDraws' = 0 /\ mode' = mode

\* The step in progress uses up the feature of the room.
FeatureUsedUp == rooms' = [rooms EXCEPT ![Here].feature = "EMPTY"]

\* C31 as stated: L, O, R and P act only in a room with the matching
\* feature, and otherwise give a notice with no state change and no draw;
\* every successful use resets the room's feature to EMPTY.
C31_FeatureUsedOnce ==
    /\ [][UseMirror =>
             IF CurrentRoom.feature = "MIRROR" THEN FeatureUsedUp
             ELSE FeatureRefused("no_mirror")]_vars
    /\ [][OpenChest =>
             IF CurrentRoom.feature = "CHEST" THEN FeatureUsedUp
             ELSE FeatureRefused("no_chest")]_vars
    /\ [][ReadScroll =>
             IF CurrentRoom.feature = "SCROLL" THEN FeatureUsedUp
             ELSE FeatureRefused("nothing_to_read")]_vars
    /\ [][DrinkPotion =>
             IF CurrentRoom.feature = "POTION" THEN FeatureUsedUp
             ELSE FeatureRefused("no_potion")]_vars

AllFound == player.treasures_found = 1..TreasureCount

\* The room a vision points at: its coordinates are reported from 1.
VisionRoom(e) == <<e.at[1] - 1, e.at[2] - 1, e.at[3] - 1>>

\* C32 as stated: with every treasure found the mirror gives the blank
\* vision whatever the rolls; a treasure reported after a successful
\* intelligence check (at most two draws) is not in the found set and lies
\* in the room reported.
C32_MirrorVisions ==
    /\ [][UseMirror /\ CurrentRoom.feature = "MIRROR" /\ AllFound =>
             events' = <<Ev("INFO", "cloudy")>>]_vars
    /\ [][UseMirror /\ CurrentRoom.feature = "MIRROR" /\ rngDraws' <= 2 =>
             \/ events' = <<Ev("INFO", "cloudy")>> /\ rngDraws' = 1
                   /\ \A q \in GameGrid :
                         rooms[q].treasure_id = 0
                            \/ rooms[q].treasure_id \in player.treasures_found
             \/ /\ events'[1].text = "see_treasure" /\ Len(events') = 1
                /\ events'[1].n \in (1..TreasureCount) \ player.treasures_found
                /\ VisionRoom(events'[1]) \in GameGrid
                /\ rooms'[VisionRoom(events'[1])].treasure_id = events'[1].n]_vars

(***************************************************************************)
(* The chest on its own: Game on LayoutShop with the player standing in    *)
(* the chest's room, in any armor or none, hale or nearly dead.            *)
(***************************************************************************)
ChestPlayers ==
    {[CreatePlayer(Creation("HUMAN", 0, 50)).player EXCEPT
         !.z = 1, !.y = 0, !.x = 1,
         !.armor_tier = at, !.armor_name = ARMOR_NAMES(at),
         !.hp = hp, !.gold = g] :
        at \in 0..3, hp \in {1, 2, 5, 20}, g \in {0, 30}}

InitChest ==
    /\ rooms = [LayoutShop EXCEPT ![<<1, 0, 1>>].seen = TRUE]
    /\ player \in ChestPlayers
    /\ gen = GenOff
    /\ mode = "EXPLORE"
    /\ encounter = NoEncounter
    /\ awaiting_spell = FALSE
    /\ shop_state = NoShop
    /\ pc = Idle
    /\ calls = 0
    /\ events = <<Ev("INFO", "chest_here")>>
    /\ rngDraws = 0
    /\ needs_input = TRUE
    /\ sess = NoSession

NextChest == OpenChest

SpecChest == InitChest /\ [][NextChest]_vars

\* C33 as stated: opening a chest resolves exactly one outcome: the armor
\* is damaged or destroyed or, if the player wears none, a small HP penalty
\* is taken, which ends the game at HP 0 or below; or nothing changes on
\* the player; or 10 to 30 gold is added.
C33_ChestOutcomes ==
    [][OpenChest /\ CurrentRoom.feature = "CHEST" =>
          \/ /\ events' = <<Ev("INFO", "chest_explodes")>>
             /\ IF player.armor_tier > 0
                THEN /\ player'.armor_tier < player.armor_tier
                     /\ player' = [player EXCEPT
                           !.armor_tier = player'.armor_tier,
                           !.armor_name = ARMOR_NAMES(player'.armor_tier)]
                     /\ mode' = mode
                ELSE /\ player'.hp < player.hp
                     /\ player' = [player EXCEPT !.hp = player'.hp]
                     /\ mode' = IF player'.hp <= 0 THEN "GAME_OVER" ELSE mode
          \/ /\ events' = <<Ev("INFO", "chest_empty")>>
             /\ player' = player /\ mode' = mode
          \/ /\ events' = <<Ev("INFO", "chest_gold")>>
             /\ player'.gold - player.gold \in 10..30
             /\ player' = [player EXCEPT !.gold = player'.gold]
             /\ mode' = mode]_vars

(***************************************************************************)
(* The potion on its own: Game on LayoutFeatures with the player standing  *)
(* in the potion's room, hale or wounded, sturdy or frail.                 *)
(***************************************************************************)
PotionPlayers ==
    {[CreatePlayer(Creation("ELF", 1, 60)).player EXCEPT
         !.z = 0, !.y = 0, !.x = 1, !.hp = hp, !.mhp = mhp] :
        hp \in {1, 3, 10, 16}, mhp \in {3, 5, 16}}

InitPotion ==
    /\ rooms = [LayoutFeatures EXCEPT ![<<0, 0, 1>>].seen = TRUE]
    /\ player \in {p \in PotionPlayers : p.hp <= p.mhp}
    /\ gen = GenOff
    /\ mode = "EXPLORE"
    /\ encounter = NoEncounter
    /\ awaiting_spell = FALSE
    /\ shop_state = NoShop
    /\ pc = Idle
    /\ calls = 0
    /\ events = <<Ev("INFO", "potion_here")>>
    /\ rngDraws = 0
    /\ needs_input = TRUE
    /\ sess = NoSession

NextPotion == DrinkPotion

SpecPotion == InitPotion /\ [][NextPotion]_vars

\* The step in progress is a potion that changes MaxHP.
PotionChangesMaxHp ==
    DrinkPotion /\ CurrentRoom.feature = "POTION" /\ player'.mhp # player.mhp

PotionDeltas == (-6..6) \ {0}

\* C34 as stated: a potion that changes MaxHP by a delta leaves MaxHP at
\* max(1, MaxHP + delta) and only caps the hit points: HP' = min(HP, MaxHP').
C34_MaxHpOnlyCapsHp ==
    [][PotionChangesMaxHp =>
          \E delta \in PotionDeltas :
             player' = [player EXCEPT
                 !.mhp = Max(1, player.mhp + delta),
                 !.hp = Min(player.hp, Max(1, player.mhp + delta))]]_vars

\* C34, amended: a potion that changes MaxHP by a delta leaves MaxHP at
\* max(1, MaxHP + delta) and moves the hit points by the same delta, kept
\* between 1 and the new maximum: HP' = max(1, min(HP + delta, MaxHP'));
\* the hit points never exceed the maximum.
C34_MaxHpShiftsHp ==
    /\ [][PotionChangesMaxHp =>
             \E delta \in PotionDeltas :
                player' = [player EXCEPT
                    !.mhp = Max(1, player.mhp + delta),
                    !.hp = Max(1, Min(player.hp + delta,
                                      Max(1, player.mhp + delta)))]]_vars
    /\ [](player.hp <= player.mhp /\ player.mhp >= 1 /\ player.hp >= 1)

\* A wounded player drank a potion that raised MaxHP, and the hit points
\* rose with it.
C34_Witness ==
    /\ events = <<Ev("INFO", "potion_energies")>>
    /\ player.mhp = 22 /\ player.hp = 16

(***************************************************************************)
(* validate_dungeon on its own: a dungeon the generator can return and     *)
(* every dungeon that differs from it in one room.                         *)
(***************************************************************************)
CandidateRooms ==
    {[Room EXCEPT !.feature = f, !.monster_level = m, !.treasure_id = t] :
        f \in {"EMPTY", "MIRROR", "EXIT", "STAIRS_UP", "STAIRS_DOWN"},
        m \in {0, 1}, t \in 0..TreasureCount}

CandidateDungeons ==
    {[LayoutCombat EXCEPT ![q] = room] :
        q \in GameGrid, room \in CandidateRooms}

InitValidate ==
    /\ rooms \in CandidateDungeons
    /\ pc = "given"
    /\ events = {}
    /\ player = NoPlayer
    /\ gen = GenOff
    /\ mode = "EXPLORE"
    /\ encounter = NoEncounter
    /\ awaiting_spell = FALSE
    /\ shop_state = NoShop
    /\ calls = 0
    /\ rngDraws = 0
    /\ needs_input = TRUE
    /\ sess = NoSession

\* validate_dungeon(dungeon): events holds the messages returned.
Validate ==
    /\ pc = "given"
    /\ pc' = "validated"
    /\ events' = ValidateDungeon(rooms, SIZE, SIZE, SIZE, TreasureCount)
    /\ calls' = calls + 1
    /\ UNCHANGED <<rooms, gen, player, mode, encounter, awaiting_spell,
                   shop_state, rngDraws, needs_input, sess>>

NextValidate == Validate

SpecValidate == InitValidate /\ [][NextValidate]_vars

RoomsWith(r, f) == {q \in GameGrid : r[q].feature = f}

OnFloor(S, z) == {q \in S : q[1] = z}

\* The invariants of the data model the claim lists, on the SIZE cube.
ExitInvariant(r) ==
    /\ Cardinality(RoomsWith(r, "EXIT")) = 1
    /\ \A q \in RoomsWith(r, "EXIT") : q[1] = SIZE - 1

TreasureInvariant(r) ==
    /\ Cardinality({q \in GameGrid : r[q].treasure_id # 0}) = TreasureCount
    /\ \A t \in 1..TreasureCount :
          Cardinality({q \in GameGrid : r[q].treasure_id = t}) = 1

StairInvariant(r) ==
    /\ \A z \in 0..SIZE - 1 :
          /\ Cardinality(OnFloor(RoomsWith(r, "STAIRS_UP"), z)) =
                IF z < SIZE - 1 THEN 1 ELSE 0
          /\ Cardinality(OnFloor(RoomsWith(r, "STAIRS_DOWN"), z)) =
                IF z > 0 THEN 1 ELSE 0
    /\ \A q \in RoomsWith(r, "STAIRS_UP") :
          Above(q) \in GameGrid /\ r[Above(q)].feature = "STAIRS_DOWN"
    /\ \A q \in RoomsWith(r, "STAIRS_DOWN") :
          Below(q) \in GameGrid /\ r[Below(q)].feature = "STAIRS_UP"

FeatureInvariant(r) ==
    \A q \in GameGrid :
       r[q].feature # "EMPTY" => r[q].monster_level = 0 /\ r[q].treasure_id = 0

MonsterTreasureInvariant(r) ==
    \A q \in GameGrid : ~(r[q].monster_level > 0 /\ r[q].treasure_id # 0)

\* C35 as stated: validate_dungeon returns a violation for every dungeon
\* that breaks the exit count or floor, the treasure count, the treasure
\* ids being exactly the distinct ids, the stair counts or alignment, the
\* exclusion of features from monsters and treasures, or the exclusion of
\* monsters from treasures.
C35_ValidatorComplete ==
    pc = "validated" =>
       (~(/\ ExitInvariant(rooms) /\ TreasureInvariant(rooms)
          /\ StairInvariant(rooms) /\ FeatureInvariant(rooms)
          /\ MonsterTreasureInvariant(rooms))
        => events # {})

(***************************************************************************)
(* Properties of the player's flags, gold and treasures.                   *)
(***************************************************************************)
FlagsReset(p) == ~p.fatigued /\ p.temp_armor_bonus = 0

\* C36 as stated: the transient combat flags are reset when an encounter
\* starts, and whenever no encounter is active and the player is alive and
\* exploring (a shop open or not), fatigued is false and temp_armor_bonus
\* is 0.
C36_FlagsResetOutsideEncounter ==
    /\ [][encounter = NoEncounter /\ encounter' # NoEncounter =>
             FlagsReset(player')]_vars
    /\ [](encounter = NoEncounter /\ mode = "EXPLORE" /\ player.hp > 0 =>
             FlagsReset(player))

\* The gold the step in progress takes from the player.
GoldSpent == player.gold - player'.gold

\* The prices the shop can ask in its present phase and category.
ShopPrices ==
    IF shop_state.phase = "attribute" THEN {POTION_PRICES("ATTRIBUTE")}
    ELSE CASE shop_state.category = "1" -> {WEAPON_PRICES(t) : t \in 1..3}
           [] shop_state.category = "2" -> {ARMOR_PRICES(t) : t \in 1..3}
           [] shop_state.category = "3" -> {SPELL_PRICES(sp) : sp \in Spells}
           [] OTHER -> {POTION_PRICES("HEALING")}

GenSize == 7
\* generation.py: max_level = min(10, min_level + 5).
LevelSpread == 5

\* constants.py: MONSTER_NAMES.
MONSTER_NAMES ==
    <<"Skeleton", "Goblin", "Kobold", "Orc", "Troll", "Werewolf", "Banshee",
      "Hellhound", "Chimaera", "Dragon">>

\* list[i] of Python: negative indexes count from the end, any other index
\* outside the list raises IndexError.
PyIndex(list, i) ==
    IF i \in 0..Len(list)-1 THEN list[i + 1]
    ELSE IF i \in -Len(list)..-1 THEN list[Len(list) + i + 1]
    ELSE "IndexError"

\* A floor of the dungeon whose next room is to be created.
InitLevels ==
    /\ \E floor \in 0..GenSize-1 : gen = [pc |-> "create", floor |-> floor]
    /\ rooms = <<>>
    /\ player = CreatePlayer(Creation("HUMAN", 0, 50)).player
    /\ sess = NoSession
    /\ mode = "EXPLORE"
    /\ encounter = NoEncounter
    /\ awaiting_spell = FALSE
    /\ shop_state = NoShop
    /\ pc = Idle
    /\ calls = 0
    /\ events = <<>>
    /\ rngDraws = 0
    /\ needs_input = TRUE

\* _create_room(rng, floor), with all eight feature rolls.
LevelsCreateRoom ==
    /\ gen.pc = "create"
    /\ \E room \in CreateRoomOutcomes(gen.floor, 1..8, LevelSpread) :
          rooms' = <<room>>
    /\ gen' = [gen EXCEPT !.pc = "created"]
    /\ UNCHANGED <<player, mode, encounter, awaiting_spell, shop_state, pc,
                   calls, events, rngDraws, needs_input, sess>>

\* EncounterSession.start for the monster of the room, and the name its
\* start_events announce.
LevelsStart ==
    /\ gen.pc = "created"
    /\ rooms[1].monster_level > 0
    /\ LET monster_level == rooms[1].monster_level
           name == PyIndex(MONSTER_NAMES, monster_level - 1)
       IN  IF name = "IndexError"
           THEN /\ gen' = [gen EXCEPT !.pc = "IndexError"]
                /\ UNCHANGED <<player, sess, events, rngDraws, mode>>
           ELSE \E v \in RandInt(0, 3) :
                   /\ gen' = [gen EXCEPT !.pc = "started"]
                   /\ player' = ResetPlayerAfterEncounter(player)
                   /\ sess' = Session(monster_level, 3 * monster_level + v)
                   /\ events' = <<Ev("COMBAT", name)>>
                   /\ rngDraws' = rngDraws + 1
                   /\ mode' = "ENCOUNTER"
    /\ UNCHANGED <<rooms, encounter, awaiting_spell, shop_state, pc, calls,
                   needs_input>>

NextLevels == LevelsCreateRoom \/ LevelsStart

SpecLevels == InitLevels /\ [][NextLevels]_vars

\* C38: a monster created on floor z has a level in z+1..min(10, z+6), so
\* in 1..10; the encounter started on it finds the name of that level and
\* a vitality of 3*level + (0..3), which is positive.
C38_LevelsInRange ==
    /\ gen.pc # "IndexError"
    /\ gen.pc \in {"created", "started"} /\ rooms[1].monster_level # 0 =>
          /\ rooms[1].monster_level \in
                gen.floor + 1 .. Min(10, gen.floor + 6)
          /\ rooms[1].monster_level \in 1..10
    /\ gen.pc = "started" =>
          /\ sess.monster_level = rooms[1].monster_level
          /\ events = <<Ev("COMBAT", MONSTER_NAMES[sess.monster_level])>>
          /\ sess.vitality - 3 * sess.monster_level \in 0..3
          /\ sess.vitality > 0

\* The encounter with a Dragon met on the lowest floor has started.
C38_Witness ==
    /\ gen.pc = "started" /\ gen.floor = GenSize - 1
    /\ sess.monster_level = 10 /\ sess.vitality = 33
    /\ events = <<Ev("COMBAT", "Dragon")>>

(***************************************************************************)
(* Properties of the treasures                                             *)
(***************************************************************************)
\* The rooms that hold the treasure id.
TreasureRooms(id) == {q \in GameGrid : rooms[q].treasure_id = id}

\* C39: every treasure id is either in the player's found set and in no
\* room, or in exactly one room and not in the found set; the rooms hold
\* no other id and the found set no other element.
C39_TreasureConserved ==
    /\ \A id \in 1..TreasureCount :
          IF id \in player.treasures_found
          THEN TreasureRooms(id) = {}
          ELSE Cardinality(TreasureRooms(id)) = 1
    /\ player.treasures_found \subseteq 1..TreasureCount
    /\ \A q \in GameGrid : rooms[q].treasure_id \in 0..TreasureCount

\* A living player has found the first treasure in a monster's room and
\* the second still lies in its room.
C39_Witness ==
    /\ player.hp > 0 /\ mode = "EXPLORE"
    /\ player.treasures_found = {1}
    /\ HasEvent("expires") /\ HasLoot
    /\ Cardinality(TreasureRooms(2)) = 1

(***************************************************************************)
(* Termination of generate_dungeon                                         *)
(***************************************************************************)
\* Some draw of the loop in progress is accepted.
TreasureLoopCanExit == \E p \in GenGrid : TreasureEligible(rooms, p)
StairsLoopCanExit ==
    \E y \in 0..GenRows-1, x \in 0..GenCols-1 :
       StairsEligible(rooms, gen.z, y, x)
ExitLoopCanExit ==
    \E y \in 0..GenRows-1, x \in 0..GenCols-1 :
       ExitEligible(rooms, GenFloors - 1, y, x)

\* The loop in progress rejects every draw.
GenStuck ==
    \/ gen.pc = "treasures" /\ ~TreasureLoopCanExit
    \/ gen.pc = "stairs" /\ ~StairsLoopCanExit
    \/ gen.pc = "exit" /\ ~ExitLoopCanExit

\* C40: whatever _create_room placed, each rejection-sampling loop of
\* generate_dungeon (the treasures, the stairs of each floor, the exit)
\* has at least one position whose draw it accepts.
C40_LoopsCanExit == ~GenStuck

====
